---- MODULE Spec2Model ----
(***************************************************************************)
(* Lifecycle of TfjsPoseDetector (src/src/lib/pose-detection/              *)
(* poseDetection.ts): initialize / detect / close on one detector          *)
(* instance, with the asynchronous model load split at its await points.   *)
(*                                                                         *)
(* Granularity.  JavaScript runs one event-loop turn to completion: the    *)
(* synchronous prefix of a call (up to its first await on the runtime) is  *)
(* one step, and the resumption after an awaited runtime promise settles   *)
(* is one step.  The promise reactions queued by that resumption (the      *)
(* owner's `finally`, the callers that returned the in-flight promise)     *)
(* are microtasks of the same turn and belong to the same step.            *)
(***************************************************************************)
EXTENDS Integers, FiniteSets, Sequences, TLC

VARIABLES
  detector,            \* this.detector: pose-detection handle or NoHandle
  yoloDetector,        \* this.yoloDetector: graph model handle or NoHandle
  modelType,           \* this.modelType: the requested model
  loadedModelType,     \* this.loadedModelType: "null" or a model id
  backend,             \* this.backend
  solutionPath,        \* this.solutionPath
  initializingPromise, \* this.initializingPromise: 0 (null) or 1 (the in-flight promise)
  load,                \* position of the in-flight load (the async IIFE)
  call,                \* the initialize calls: pending or just settled
  det,                 \* the detect calls: pending or just settled
  lastEv,              \* the most recent lifecycle event
  lastDisposed,        \* the handle the latest run of close calls disposed
  frame,               \* the detectYolo11 call in progress: its position and locals
  numTensors,          \* tf.memory().numTensors, the model's weights not counted
  app,                 \* the App component (App.tsx) that owns the detector
  other                \* a second TfjsPoseDetector instance

vars == <<detector, yoloDetector, modelType, loadedModelType, backend,
          solutionPath, initializingPromise, load, call, det, lastEv,
          lastDisposed, frame, numTensors, app, other>>

\* The fields of the detector instance (what the class declares, lines 94-100).
fields == <<detector, yoloDetector, modelType, loadedModelType, backend,
            solutionPath, initializingPromise>>

----------------------------------------------------------------------------
\* Bounds of the model.
NumCallers == 2     \* initialize calls that may be outstanding together
NumDetects == 1     \* detect calls that may be outstanding together
MaxTs == 1          \* timestamps 0..MaxTs
MaxChains == 2      \* render-loop chains of the App that may be active together

Callers == 1..NumCallers
DetectIds == 1..NumDetects
Timestamps == 0..MaxTs
Chains == 1..MaxChains

----------------------------------------------------------------------------
\* TfjsModelType, and an identifier outside it (a JavaScript caller can pass one).
Supported == {"blazepose-lite", "movenet-lightning", "yolo11"}
Unsupported == "unsupported"
NoArg == "omitted"
ModelArgs == Supported \cup {Unsupported, NoArg}
Backends == {"webgl", "wasm"}
BackendArgs == Backends \cup {NoArg}
DefaultSolutionPath == "cdn"
SolutionPathArgs == {"custom", NoArg}

\* A handle of the runtime: the model it was created for, and how often its
\* dispose() has run.
NoHandle == [kind |-> "none", disposed |-> 0]
Handle(k) == [kind |-> k, disposed |-> 0]

IdleLoad == [pc |-> "idle", kind |-> "none"]
IdleCall == [st |-> "idle", role |-> "none", arg |-> "none", err |-> "none"]

\* PoseResult (lines 53-57).  A keypoint is named by the adapter that produced it.
PoseResult(kp, kp3, ts) == [keypoints |-> kp, keypoints3D |-> kp3, timestamp |-> ts]
NoResult == PoseResult(<<>>, <<>>, 0)
IdleDet == [st |-> "idle", via |-> NoHandle, ts |-> 0, res |-> NoResult, err |-> "none"]

\* The locals of a detectYolo11 call (lines 207-247), none running.
NoLetter == [scale |-> [num |-> 0, den |-> 1], resized |-> [width |-> 0, height |-> 0],
             dx |-> 0, dy |-> 0]
IdleFrame == [pc |-> "idle", d |-> 0, srcW |-> 0, srcH |-> 0, letter |-> NoLetter,
              out |-> <<>>, boxes |-> <<>>, scores |-> <<>>,
              selected |-> <<>>, topIdx |-> 0, kpArr |-> <<>>,
              kpts |-> <<>>, exit |-> "none", before |-> 0, n |-> 0]

\* The App component before it is mounted (App.tsx, lines 45-62): no webcam,
\* no video file, nothing in the video element, no handler attached to it, no
\* render-loop chain running, no animation frame scheduled, no image being
\* handled.
IdleApp == [mounted |-> FALSE, webcamRunning |-> FALSE, videoFileActive |-> FALSE,
            media |-> "none", loading |-> FALSE, listener |-> FALSE,
            onloadeddata |-> FALSE, loop |-> [c \in Chains |-> "idle"],
            frameId |-> 0, file |-> "idle"]

\* A TfjsPoseDetector as its constructor leaves it (lines 94-106), with the
\* position of its load.
FreshInstance == [detector |-> NoHandle, yoloDetector |-> NoHandle,
                  modelType |-> "blazepose-lite", loadedModelType |-> "null",
                  initializingPromise |-> 0, load |-> IdleLoad]

Init ==
  /\ detector = NoHandle
  /\ yoloDetector = NoHandle
  /\ modelType = "blazepose-lite"
  /\ loadedModelType = "null"
  /\ backend = "webgl"
  /\ solutionPath = DefaultSolutionPath
  /\ initializingPromise = 0
  /\ load = IdleLoad
  /\ call = [c \in Callers |-> IdleCall]
  /\ det = [d \in DetectIds |-> IdleDet]
  /\ lastEv = "none"
  /\ lastDisposed = NoHandle
  /\ frame = IdleFrame
  /\ numTensors = 0
  /\ app = IdleApp
  /\ other = FreshInstance

----------------------------------------------------------------------------
\* The record of a settled call is kept for the one state that follows the step
\* that settled it: it is what the caller observes when its promise settles.
Forget(f, idle) == [x \in DOMAIN f |-> IF f[x].st = "pending" THEN f[x] ELSE idle]

\* Mutant of InFlight: the in-flight guard is missing.
InFlight_Missing == FALSE

\* initialize, line 114: a load is in flight.
InFlight == initializingPromise # 0

\* Mutant of SameModelLoaded: the same-model guard is missing.
SameModelLoaded_Missing(mt) == FALSE

\* initialize, line 115: the requested model is the one marked as loaded.
SameModelLoaded(mt) == loadedModelType = mt

\* initialize, line 120.
UsingMediapipeRuntime(mt) == mt = "blazepose-lite"

\* initialize, line 114: return the in-flight promise; the call settles with it.
Join(c, m) ==
  /\ call' = [Forget(call, IdleCall) EXCEPT ![c] =
        [st |-> "pending", role |-> "waiter", arg |-> m, err |-> "none"]]
  /\ UNCHANGED <<initializingPromise, load>>

\* initialize, lines 115-118: same model already loaded, skip.
Skip(c, m) ==
  /\ call' = [Forget(call, IdleCall) EXCEPT ![c] =
        [st |-> "resolved", role |-> "skip", arg |-> m, err |-> "none"]]
  /\ UNCHANGED <<initializingPromise, load>>

\* initialize, lines 120-158: start the async IIFE and run it to its first
\* await: createDetector for the mediapipe runtime (the switch is evaluated in
\* the call), tf.setBackend otherwise.
StartLoad(c, m, mt) ==
  /\ initializingPromise' = 1
  /\ load' = IF UsingMediapipeRuntime(mt)
               THEN [pc |-> "create", kind |-> mt]
               ELSE [pc |-> "setBackend", kind |-> "none"]
  /\ call' = [Forget(call, IdleCall) EXCEPT ![c] =
        [st |-> "pending", role |-> "owner", arg |-> m, err |-> "none"]]

\* Mutant of Initialize: a call without a model option falls back to the
\* default model.
Initialize_DefaultModel(c, m, b, s) ==
  /\ call[c].st # "pending"
  /\ LET mt == IF m = NoArg THEN FreshInstance.modelType ELSE m
     IN  /\ modelType' = mt
         /\ backend' = IF b = NoArg THEN backend ELSE b
         /\ solutionPath' = IF s = NoArg THEN solutionPath ELSE s
         /\ IF InFlight THEN Join(c, m)
            ELSE IF SameModelLoaded(mt) THEN Skip(c, m)
            ELSE StartLoad(c, m, mt)
  /\ det' = Forget(det, IdleDet)
  /\ lastEv' = "initialize"
  /\ lastDisposed' = NoHandle
  /\ UNCHANGED <<detector, yoloDetector, loadedModelType, frame, numTensors, other>>

\* initialize(options), lines 108-162, up to its first suspension.
Initialize(c, m, b, s) ==
  /\ call[c].st # "pending"
  /\ LET mt == IF m = NoArg THEN modelType ELSE m
     IN  /\ modelType' = mt
         /\ backend' = IF b = NoArg THEN backend ELSE b
         /\ solutionPath' = IF s = NoArg THEN solutionPath ELSE s
         /\ IF InFlight THEN Join(c, m)
            ELSE IF SameModelLoaded(mt) THEN Skip(c, m)
            ELSE StartLoad(c, m, mt)
  /\ det' = Forget(det, IdleDet)
  /\ lastEv' = "initialize"
  /\ lastDisposed' = NoHandle
  /\ UNCHANGED <<detector, yoloDetector, loadedModelType, frame, numTensors, other>>

\* Mutant of Settle: the marker is cleared after the await, with no finally, so
\* a failed load leaves it set.
Settle_NoFinally(st, err) ==
  /\ initializingPromise' = IF st = "resolved" THEN 0 ELSE initializingPromise
  /\ load' = IdleLoad
  /\ call' = [c \in Callers |->
        IF call[c].st = "pending"
          THEN [call[c] EXCEPT !.st = st, !.err = err]
          ELSE call[c]]
  /\ det' = Forget(det, IdleDet)
  /\ lastEv' = "settle"
  /\ lastDisposed' = NoHandle
  /\ UNCHANGED <<modelType, backend, solutionPath, frame, numTensors, app, other>>

\* The in-flight promise settles: the owner's finally (line 160) clears the
\* marker, and the owner and every caller that returned the promise settle.
Settle(st, err) ==
  /\ initializingPromise' = 0
  /\ load' = IdleLoad
  /\ call' = [c \in Callers |->
        IF call[c].st = "pending"
          THEN [call[c] EXCEPT !.st = st, !.err = err]
          ELSE call[c]]
  /\ det' = Forget(det, IdleDet)
  /\ lastEv' = "settle"
  /\ lastDisposed' = NoHandle
  /\ UNCHANGED <<modelType, backend, solutionPath, frame, numTensors, app, other>>

\* line 124: tf.setBackend resolved; await tf.ready().
SetBackendDone ==
  /\ load.pc = "setBackend"
  /\ load' = [load EXCEPT !.pc = "tfReady"]
  /\ call' = Forget(call, IdleCall)
  /\ det' = Forget(det, IdleDet)
  /\ UNCHANGED <<detector, yoloDetector, modelType, loadedModelType, backend,
                 solutionPath, initializingPromise, lastEv, lastDisposed,
                 frame, numTensors, app, other>>

\* lines 125-151: tf.ready resolved; the switch reads this.modelType now and
\* calls the runtime's loader, or throws for an unrecognized model.
TfReadyDone ==
  /\ load.pc = "tfReady"
  /\ IF modelType \in Supported
       THEN /\ load' = [pc |-> "create", kind |-> modelType]
            /\ call' = Forget(call, IdleCall)
            /\ det' = Forget(det, IdleDet)
            /\ UNCHANGED <<detector, yoloDetector, modelType, loadedModelType,
                           backend, solutionPath, initializingPromise, lastEv,
                           lastDisposed, frame, numTensors, app, other>>
       ELSE /\ Settle("rejected", "Unsupported model")
            /\ UNCHANGED <<detector, yoloDetector, loadedModelType>>

\* lines 124-125: tf.setBackend or tf.ready rejected.
BackendFail ==
  /\ load.pc \in {"setBackend", "tfReady"}
  /\ Settle("rejected", "LoadFailure")
  /\ UNCHANGED <<detector, yoloDetector, loadedModelType>>

\* lines 131-153: the loader resolved with a handle; install it and mark
\* this.modelType (as it is now) as loaded.
CreateDone ==
  /\ load.pc = "create"
  /\ IF load.kind = "yolo11"
       THEN /\ yoloDetector' = Handle(load.kind)
            /\ detector' = NoHandle
       ELSE /\ detector' = Handle(load.kind)
            /\ UNCHANGED yoloDetector
  /\ loadedModelType' = modelType
  /\ Settle("resolved", "none")

\* Mutant of CreateFail: the model is marked as loaded although its load failed.
CreateFail_MarksLoaded ==
  /\ load.pc = "create"
  /\ Settle("rejected", "LoadFailure")
  /\ loadedModelType' = modelType
  /\ UNCHANGED <<detector, yoloDetector>>

\* lines 131-145: the loader rejected (artifact fetch or compile failure).
CreateFail ==
  /\ load.pc = "create"
  /\ Settle("rejected", "LoadFailure")
  /\ UNCHANGED <<detector, yoloDetector, loadedModelType>>

\* close, line 263: this.detector?.dispose().
Dispose(h) ==
  IF h = NoHandle THEN h ELSE [h EXCEPT !.disposed = @ + 1]

\* Mutant of Dropped: close disposes the handle and keeps it in the field.
Dropped_Kept(h) == h

\* close, line 264: this.detector = null.
Dropped(h) == NoHandle

\* close(), lines 262-265 (no await: the whole body is one step).
Close ==
  /\ detector' = Dropped(Dispose(detector))
  /\ lastDisposed' = IF detector = NoHandle THEN lastDisposed ELSE Dispose(detector)
  /\ call' = Forget(call, IdleCall)
  /\ det' = Forget(det, IdleDet)
  /\ lastEv' = IF lastEv \in {"close", "close again"} THEN "close again" ELSE "close"
  /\ UNCHANGED <<yoloDetector, modelType, loadedModelType, backend, solutionPath,
                 initializingPromise, load, frame, numTensors, app, other>>

\* detect, line 165: no adapter is loaded.
NotReady == detector = NoHandle /\ yoloDetector = NoHandle

\* detect, lines 164-174 and 206-228: what one detect call does with the fields
\* as they are: the path it takes and the handle it runs.
DetectPath ==
  IF NotReady THEN [path |-> "notReady", via |-> NoHandle]
  ELSE IF modelType = "yolo11" THEN [path |-> "yolo", via |-> yoloDetector]
  ELSE [path |-> "poses", via |-> detector]

\* Mutant of EmptyResult: the timestamp is not passed through.
EmptyResult_NoTimestamp(ts) == PoseResult(<<>>, <<>>, 0)

\* detect, lines 167 and 177: the empty result, with the caller's timestamp.
EmptyResult(ts) == PoseResult(<<>>, <<>>, ts)

\* line 246: a candidate carries 17 keypoints of three channels [x, y, v].
NumKeypoints == 17

\* A keypoint coordinate (Keypoint.x, Keypoint.y: number, lines 10-16) is the
\* exact fraction n/d in lowest terms with d > 0, so that equal numbers are
\* equal records.
Abs(a) == IF a < 0 THEN -a ELSE a
RECURSIVE GCD(_, _)
GCD(a, b) == IF b = 0 THEN a ELSE GCD(b, a % b)
Frac(n, d) ==
  LET g == GCD(Abs(n), d)
  IN  [n |-> n \div g, d |-> d \div g]

\* The keypoints per pose of the two runtimes behind estimatePoses: BlazePose
\* gives 33, MoveNet 17.
BlazePoseKeypoints == 33
MoveNetKeypoints == 17

\* estimatePoses (line 174) when it finds a pose: the poses of the runtime
\* behind the handle.  Keypoint i carries its index as name, coordinates that
\* differ from index to index, and a score (in hundredths) from 0 upwards.
\* Only the mediapipe runtime gives z and 3-D keypoints.
RuntimeKeypoints(n, withZ) ==
  [i \in 1..n |-> [x |-> i, y |-> 2 * i, z |-> IF withZ THEN -i ELSE "undefined",
                   score |-> 3 * (i - 1), name |-> i]]
BlazePosePoses ==
  << [keypoints |-> RuntimeKeypoints(BlazePoseKeypoints, TRUE),
      keypoints3D |-> RuntimeKeypoints(BlazePoseKeypoints, TRUE)] >>
MoveNetPoses ==
  << [keypoints |-> RuntimeKeypoints(MoveNetKeypoints, FALSE), keypoints3D |-> <<>>] >>
EstimatePoses(h) == IF h.kind = "blazepose-lite" THEN BlazePosePoses ELSE MoveNetPoses

\* lines 182-188 and 191-197: kp => ({x, y, z, visibility: kp.score, name}).
Copied(kps) ==
  [i \in DOMAIN kps |-> [x |-> kps[i].x, y |-> kps[i].y, z |-> kps[i].z,
                         visibility |-> kps[i].score, name |-> kps[i].name]]

\* The keypoints of a detectYolo11 call whose frame is not looked at: the
\* centre of a 640x640 source.
CentreKeypoints ==
  [i \in 1..NumKeypoints |-> [x |-> Frac(320, 1), y |-> Frac(320, 1), visibility |-> 50]]

\* detect, lines 180-203: the first pose of the runtime copied into a
\* PoseResult; detectYolo11, line 255: the restored keypoints and no 3-D ones.
Estimated(h, ts) ==
  IF h.kind = "yolo11" THEN PoseResult(CentreKeypoints, <<>>, ts)
  ELSE LET p == EstimatePoses(h)[1]
       IN  PoseResult(Copied(p.keypoints), Copied(p.keypoints3D), ts)

\* detect(input, timestamp), lines 164-174, up to its first suspension.
\* Dereferencing a null handle (this.detector!, this.yoloDetector!) throws.
Detect(d, ts) ==
  /\ det[d].st # "pending"
  /\ LET p == DetectPath
     IN det' = [Forget(det, IdleDet) EXCEPT ![d] =
          IF p.path = "notReady"
            THEN [st |-> "resolved", via |-> NoHandle, ts |-> ts,
                  res |-> EmptyResult(ts), err |-> "none"]
          ELSE IF p.via = NoHandle
            THEN [st |-> "rejected", via |-> NoHandle, ts |-> ts,
                  res |-> NoResult, err |-> "TypeError"]
          ELSE [st |-> "pending", via |-> p.via, ts |-> ts,
                res |-> NoResult, err |-> "none"]]
  /\ call' = Forget(call, IdleCall)
  /\ UNCHANGED <<detector, yoloDetector, modelType, loadedModelType, backend,
                 solutionPath, initializingPromise, load, lastEv, lastDisposed, other>>

\* The outcomes of the runtime's inference: estimatePoses (line 174) gives
\* poses, no pose, or rejects; the graph model (lines 228-247) gives a
\* detection or throws.
Outcomes(h) ==
  IF h.kind = "yolo11" THEN {"keypoints", "error"}
  ELSE {"keypoints", "empty", "error"}

\* Mutant of DetectSettle: a failed inference unloads the adapter.
DetectSettle_UnloadsOnError(d, out) ==
  /\ det[d].st = "pending"
  /\ out \in Outcomes(det[d].via)
  /\ det' = [Forget(det, IdleDet) EXCEPT ![d] =
        IF out = "error"
          THEN [@ EXCEPT !.st = "rejected", !.err = "InferenceError"]
        ELSE IF out = "empty"
          THEN [@ EXCEPT !.st = "resolved", !.res = EmptyResult(det[d].ts)]
        ELSE [@ EXCEPT !.st = "resolved", !.res = Estimated(det[d].via, det[d].ts)]]
  /\ call' = Forget(call, IdleCall)
  /\ detector' = IF out = "error" THEN NoHandle ELSE detector
  /\ loadedModelType' = IF out = "error" THEN "null" ELSE loadedModelType
  /\ UNCHANGED <<yoloDetector, modelType, backend,
                 solutionPath, initializingPromise, load, lastEv, lastDisposed, other>>

\* Mutant of DetectSettle: the inference is held back while a load is in flight.
DetectSettle_AwaitsLoad(d, out) ==
  /\ initializingPromise = 0
  /\ det[d].st = "pending"
  /\ out \in Outcomes(det[d].via)
  /\ det' = [Forget(det, IdleDet) EXCEPT ![d] =
        IF out = "error"
          THEN [@ EXCEPT !.st = "rejected", !.err = "InferenceError"]
        ELSE IF out = "empty"
          THEN [@ EXCEPT !.st = "resolved", !.res = EmptyResult(det[d].ts)]
        ELSE [@ EXCEPT !.st = "resolved", !.res = Estimated(det[d].via, det[d].ts)]]
  /\ call' = Forget(call, IdleCall)
  /\ UNCHANGED <<detector, yoloDetector, modelType, loadedModelType, backend,
                 solutionPath, initializingPromise, load, lastEv, lastDisposed, other>>

\* detect, lines 174-203 and 228-259: the inference settled.  Neither detect nor
\* detectYolo11 has a catch clause: an inference error rejects the call.
DetectSettle(d, out) ==
  /\ det[d].st = "pending"
  /\ out \in Outcomes(det[d].via)
  /\ det' = [Forget(det, IdleDet) EXCEPT ![d] =
        IF out = "error"
          THEN [@ EXCEPT !.st = "rejected", !.err = "InferenceError"]
        ELSE IF out = "empty"
          THEN [@ EXCEPT !.st = "resolved", !.res = EmptyResult(det[d].ts)]
        ELSE [@ EXCEPT !.st = "resolved", !.res = Estimated(det[d].via, det[d].ts)]]
  /\ call' = Forget(call, IdleCall)
  /\ UNCHANGED <<detector, yoloDetector, modelType, loadedModelType, backend,
                 solutionPath, initializingPromise, load, lastEv, lastDisposed, other>>

\* detectYolo11, line 255: the call resolves with the result it built.
Return(d, res) ==
  /\ det[d].st = "pending"
  /\ det' = [Forget(det, IdleDet) EXCEPT ![d] = [@ EXCEPT !.st = "resolved", !.res = res]]
  /\ call' = Forget(call, IdleCall)
  /\ UNCHANGED <<detector, yoloDetector, modelType, loadedModelType, backend,
                 solutionPath, initializingPromise, load, lastEv, lastDisposed, other>>

----------------------------------------------------------------------------
\* The generic-detector path, detectYolo11 (lines 206-260), step by step.
\* Numbers: coordinates are integers (candidate boxes have even width and
\* height, so the halves of line 235 are exact); scores and the two thresholds
\* are in hundredths; a scale is the exact fraction num/den.  Indices are
\* 1-based: index i here is index i-1 of the code, and 0 stands for undefined.

MaxRows == 3        \* candidate rows in one model output
MaxFrames == 2      \* detectYolo11 calls in one behaviour
MaxDim == 8         \* source widths and heights 1..MaxDim, besides the video sizes

\* line 207
INPUT_SIZE == 640

\* line 242: tf.image.nonMaxSuppressionAsync(boxes, scores, 50, 0.45, 0.3)
MaxOutputSize == 50
IouThreshold == 45
ScoreThreshold == 30

Max(a, b) == IF a >= b THEN a ELSE b
Min(a, b) == IF a <= b THEN a ELSE b

\* Math.round(n/d) for n >= 0, d > 0: halves round up.
Round(n, d) == (2 * n + d) \div (2 * d)

\* computeLetterbox(srcW, srcH, size) of @royng163/reptor-core: aspect-fit
\* scale, rounded resized dimensions, floored left/top padding.
ComputeLetterbox(w, h, S) ==
  LET scale == IF S * h <= S * w THEN [num |-> S, den |-> w]
                                 ELSE [num |-> S, den |-> h]
      rw == Round(w * scale.num, scale.den)
      rh == Round(h * scale.num, scale.den)
  IN  [scale |-> scale, resized |-> [width |-> rw, height |-> rh],
       dx |-> (S - rw) \div 2, dy |-> (S - rh) \div 2]

\* Mutant of Letter: the target size is passed first.
Letter_ArgsRotated(srcW, srcH) == ComputeLetterbox(INPUT_SIZE, srcW, srcH)

\* Mutant of Letter: width and height are passed in each other's place.
Letter_Swapped(srcW, srcH) == ComputeLetterbox(srcH, srcW, INPUT_SIZE)

\* line 211: letter = computeLetterbox(srcW, srcH, INPUT_SIZE).
Letter(srcW, srcH) == ComputeLetterbox(srcW, srcH, INPUT_SIZE)

\* lines 217-221: the paddings of tf.pad, [before, after] for the rows and for
\* the columns of the resized image.
Paddings(letter) ==
  [rows |-> <<letter.dy, INPUT_SIZE - letter.resized.height - letter.dy>>,
   cols |-> <<letter.dx, INPUT_SIZE - letter.resized.width - letter.dx>>]

\* lines 216-221: the shape [height, width] of the padded image.
PaddedShape(letter) ==
  LET p == Paddings(letter)
  IN  <<p.rows[1] + letter.resized.height + p.rows[2],
        p.cols[1] + letter.resized.width + p.cols[2]>>

\* One keypoint triple of a candidate: coordinates and visibility (in
\* hundredths).
Triple(x, y, v) == [x |-> x, y |-> y, v |-> v]

\* The keypoint channels of a candidate nobody looks at: the centre of the
\* model input, in pixels.
FillerKeypoints ==
  [i \in 1..NumKeypoints |-> Triple(Frac(INPUT_SIZE, 2), Frac(INPUT_SIZE, 2), 50)]

\* One candidate row of the model output: [cx, cy, w, h, objectness] and the
\* 3 * 17 keypoint channels.  kp holds the leading keypoint triples; the
\* triples after them are those of FillerKeypoints.
Row(cx, cy, w, h, obj) ==
  [cx |-> cx, cy |-> cy, w |-> w, h |-> h, obj |-> obj, kp |-> <<>>]

\* A row with the given leading keypoint triples.
WithKeypoints(row, first) == [row EXCEPT !.kp = first]

\* The boxes and scores of the candidates.  Two boxes that overlap above the
\* IoU threshold (IoU 0.68), one that overlaps both below it (0.33 and 0.37),
\* and two degenerate ones (zero and negative width); scores below, at and
\* above the score threshold.
CandidateBoxes ==
  { <<0, 0, 100, 100>>, <<10, 10, 100, 100>>, <<50, 0, 100, 100>>,
    <<0, 0, 0, 100>>, <<0, 0, -100, 100>> }
CandidateScores == {20, 30, 50, 90}
Candidates ==
  { Row(b[1], b[2], b[3], b[4], sc) : b \in CandidateBoxes, sc \in CandidateScores }

RECURSIVE SeqsUpTo(_, _)
SeqsUpTo(S, n) ==
  IF n = 0 THEN { <<>> }
  ELSE LET shorter == SeqsUpTo(S, n - 1)
       IN  shorter \cup { Append(q, x) : q \in {r \in shorter : Len(r) = n - 1}, x \in S }

\* Mutant of Boxes: the corners are laid out [x1, y1, x2, y2].
Boxes_XFirst(transpose) ==
  [i \in DOMAIN transpose |->
     LET r == transpose[i]
         x1 == r.cx - (r.w \div 2)
         y1 == r.cy - (r.h \div 2)
     IN  <<x1, y1, x1 + r.w, y1 + r.h>>]

\* lines 232-238: [cx, cy, w, h] to corners, laid out [y1, x1, y2, x2].
Boxes(transpose) ==
  [i \in DOMAIN transpose |->
     LET r == transpose[i]
         x1 == r.cx - (r.w \div 2)
         y1 == r.cy - (r.h \div 2)
     IN  <<y1, x1, y1 + r.h, x1 + r.w>>]

\* line 240: the objectness channel.
Scores(transpose) == [i \in DOMAIN transpose |-> transpose[i].obj]

\* line 241: the keypoint channels, [N, 3 * 17].
Landmarks(transpose) ==
  [i \in DOMAIN transpose |->
     [k \in 1..NumKeypoints |->
        IF k <= Len(transpose[i].kp) THEN transpose[i].kp[k] ELSE FillerKeypoints[k]]]

\* line 246: tf.reshape(tf.gather(landmarks, topIdx), [17, 3]).
Gather(landmarks, topIdx) == landmarks[topIdx]

\* Mutant of Normalized: one coordinate within 0..1 is enough.
Normalized_Either(x, y) == x.n <= x.d \/ y.n <= y.d

\* line 251: normalized = x <= 1 && y <= 1.
Normalized(x, y) == x.n <= x.d /\ y.n <= y.d

\* mapFromLetterbox(x, y, srcW, srcH, letter, normalized) of
\* @royng163/reptor-core: a normalized point is first scaled by the target size
\* S (the longer resized side, which the aspect fit makes equal to S); then the
\* letterbox is inverted, (x - dx) / scale and (y - dy) / scale.
MapFromLetterbox(x, y, srcW, srcH, letter, normalized) ==
  LET S == Max(letter.resized.width, letter.resized.height)
      xm == IF normalized THEN Frac(x.n * S, x.d) ELSE x
      ym == IF normalized THEN Frac(y.n * S, y.d) ELSE y
      sc == Frac(letter.scale.num, letter.scale.den)
  IN  [x |-> Frac((xm.n - letter.dx * xm.d) * sc.d, xm.d * sc.n),
       y |-> Frac((ym.n - letter.dy * ym.d) * sc.d, ym.d * sc.n)]

\* Mutant of Kpts: the visibility is clamped to 0..1.
Kpts_Clamped(kpArr, srcW, srcH, letter) ==
  [i \in DOMAIN kpArr |->
     LET normalized == Normalized(kpArr[i].x, kpArr[i].y)
         mapped == MapFromLetterbox(kpArr[i].x, kpArr[i].y, srcW, srcH, letter, normalized)
     IN  [x |-> mapped.x, y |-> mapped.y, visibility |-> Max(0, Min(100, kpArr[i].v))]]

\* lines 249-254: each keypoint triple restored to source coordinates, the
\* visibility passed through.
Kpts(kpArr, srcW, srcH, letter) ==
  [i \in DOMAIN kpArr |->
     LET normalized == Normalized(kpArr[i].x, kpArr[i].y)
         mapped == MapFromLetterbox(kpArr[i].x, kpArr[i].y, srcW, srcH, letter, normalized)
     IN  [x |-> mapped.x, y |-> mapped.y, visibility |-> kpArr[i].v]]

\* Intersection and union areas of two boxes [y1, x1, y2, x2] (corners taken
\* in either order).
BoxArea(b) == (Max(b[1], b[3]) - Min(b[1], b[3])) * (Max(b[2], b[4]) - Min(b[2], b[4]))
Intersection(a, b) ==
  LET ih == Min(Max(a[1], a[3]), Max(b[1], b[3])) - Max(Min(a[1], a[3]), Min(b[1], b[3]))
      iw == Min(Max(a[2], a[4]), Max(b[2], b[4])) - Max(Min(a[2], a[4]), Min(b[2], b[4]))
  IN  Max(ih, 0) * Max(iw, 0)
Union(a, b) == BoxArea(a) + BoxArea(b) - Intersection(a, b)

\* IoU(a, b) > t/100.
IouExceeds(a, b, t) == Intersection(a, b) * 100 > t * Union(a, b)

\* The highest-scoring index of a non-empty set, the lowest index among equals.
Best(scores, among) ==
  CHOOSE i \in among :
    \A j \in among : scores[j] < scores[i] \/ (scores[j] = scores[i] /\ i <= j)

\* Greedy selection: pick the best remaining candidate, emit it, discard the
\* remaining ones that overlap it by more than the threshold; stop at the cap.
RECURSIVE Greedy(_, _, _, _, _, _)
Greedy(boxes, scores, remaining, picked, maxOutputSize, iouThreshold) ==
  IF remaining = {} \/ Len(picked) >= maxOutputSize THEN picked
  ELSE LET i == Best(scores, remaining)
           rest == { j \in remaining \ {i} : ~IouExceeds(boxes[i], boxes[j], iouThreshold) }
       IN  Greedy(boxes, scores, rest, Append(picked, i), maxOutputSize, iouThreshold)

\* tf.image.nonMaxSuppressionAsync(boxes, scores, maxOutputSize, iouThreshold,
\* scoreThreshold): the indices of the survivors, in the order they were picked.
NonMaxSuppression(boxes, scores, maxOutputSize, iouThreshold, scoreThreshold) ==
  Greedy(boxes, scores, { i \in DOMAIN scores : scores[i] > scoreThreshold },
         <<>>, maxOutputSize, iouThreshold)

\* The tensors one call allocates, by the line that creates them.
InputTensors == {"tensor4d"}                                    \* 213-224
DecodeTensors == {"out", "transpose", "boxes", "scores.slice", "scores",
                  "landmarks.slice", "landmarks"}               \* 228-241
SelectionTensors == {"selected"}                                \* 242
GatherTensors == {"gather", "kpTensor"}                         \* 246

\* Every model output of one to MaxRows candidates.
ModelOutputs == SeqsUpTo(Candidates, MaxRows) \ { <<>> }

\* The frames of a video: source dimensions, and model outputs over a few
\* candidates (a confident box, one overlapping it, a faint one and a
\* degenerate confident one).
SourceSizes == { <<400, 300>>, <<300, 400>> }
FrameCandidates ==
  { Row(0, 0, 100, 100, 90), Row(10, 10, 100, 100, 50), Row(0, 0, 100, 100, 20),
    Row(0, 0, 0, 100, 90) }
FrameOutputs == SeqsUpTo(FrameCandidates, MaxRows) \ { <<>> }

\* Mutant of DetectYolo11: the letterbox is computed from the source on the
\* first frame only; later frames are taken to be of the model's input size.
DetectYolo11_LetterOnce(d, ts, w, h, o) ==
  /\ frame.pc \in {"idle", "done"}
  /\ frame.n < MaxFrames
  /\ DetectPath.path = "yolo" /\ DetectPath.via # NoHandle
  /\ Detect(d, ts)
  /\ frame' = [IdleFrame EXCEPT !.pc = "selecting", !.d = d, !.srcW = w, !.srcH = h,
                 !.letter = IF frame.n = 0 THEN Letter(w, h)
                                           ELSE Letter(INPUT_SIZE, INPUT_SIZE),
                 !.out = o,
                 !.boxes = Boxes(o), !.scores = Scores(o),
                 !.before = numTensors, !.n = frame.n + 1]
  /\ numTensors' = numTensors + Cardinality(InputTensors) + Cardinality(DecodeTensors)
  /\ UNCHANGED app

\* lines 164-172 and 206-242: detect takes the yolo11 branch with a graph model
\* held; detectYolo11 computes the letterbox, builds the input tensor, runs the
\* model, slices its output and awaits the selection.
DetectYolo11(d, ts, w, h, o) ==
  /\ frame.pc \in {"idle", "done"}
  /\ frame.n < MaxFrames
  /\ DetectPath.path = "yolo" /\ DetectPath.via # NoHandle
  /\ Detect(d, ts)
  /\ frame' = [IdleFrame EXCEPT !.pc = "selecting", !.d = d, !.srcW = w, !.srcH = h,
                 !.letter = Letter(w, h), !.out = o,
                 !.boxes = Boxes(o), !.scores = Scores(o),
                 !.before = numTensors, !.n = frame.n + 1]
  /\ numTensors' = numTensors + Cardinality(InputTensors) + Cardinality(DecodeTensors)
  /\ UNCHANGED app

\* lines 206-228 and 256-258: the model's execute throws; the finally disposes
\* the input tensor and awaits tf.nextFrame().
ExecuteThrows(d, ts, w, h) ==
  /\ frame.pc \in {"idle", "done"}
  /\ frame.n < MaxFrames
  /\ DetectPath.path = "yolo" /\ DetectPath.via # NoHandle
  /\ Detect(d, ts)
  /\ frame' = [IdleFrame EXCEPT !.pc = "nextFrame", !.d = d, !.srcW = w, !.srcH = h,
                 !.letter = Letter(w, h), !.exit = "execute threw",
                 !.before = numTensors, !.n = frame.n + 1]
  /\ numTensors' = numTensors + Cardinality(InputTensors) - Cardinality({"tensor4d"})
  /\ UNCHANGED app

\* The steps below touch the frame, the tensor count and the detect call only.
FrameStep ==
  /\ call' = Forget(call, IdleCall)
  /\ UNCHANGED app
  /\ UNCHANGED <<detector, yoloDetector, modelType, loadedModelType, backend,
                 solutionPath, initializingPromise, load, lastEv, lastDisposed, other>>

\* Mutant of SelectionDone: the two thresholds are passed in each other's place.
SelectionDone_Swapped ==
  /\ frame.pc = "selecting"
  /\ frame' = [frame EXCEPT !.pc = "idxArr",
                 !.selected = NonMaxSuppression(frame.boxes, frame.scores,
                                 MaxOutputSize, ScoreThreshold, IouThreshold)]
  /\ numTensors' = numTensors + Cardinality(SelectionTensors)
  /\ det' = Forget(det, IdleDet)
  /\ FrameStep

\* Mutant of SelectionDone: the thresholds are left to the library's defaults
\* (IoU 0.5, no score threshold).
SelectionDone_Defaults ==
  /\ frame.pc = "selecting"
  /\ frame' = [frame EXCEPT !.pc = "idxArr",
                 !.selected = NonMaxSuppression(frame.boxes, frame.scores,
                                 MaxOutputSize, 50, -1)]
  /\ numTensors' = numTensors + Cardinality(SelectionTensors)
  /\ det' = Forget(det, IdleDet)
  /\ FrameStep

\* Mutant of SelectionDone: the score threshold is not passed.
SelectionDone_NoScoreThreshold ==
  /\ frame.pc = "selecting"
  /\ frame' = [frame EXCEPT !.pc = "idxArr",
                 !.selected = NonMaxSuppression(frame.boxes, frame.scores,
                                 MaxOutputSize, IouThreshold, -1)]
  /\ numTensors' = numTensors + Cardinality(SelectionTensors)
  /\ det' = Forget(det, IdleDet)
  /\ FrameStep

\* lines 242-243: the selection resolved; await selected.array().
SelectionDone ==
  /\ frame.pc = "selecting"
  /\ frame' = [frame EXCEPT !.pc = "idxArr",
                 !.selected = NonMaxSuppression(frame.boxes, frame.scores,
                                 MaxOutputSize, IouThreshold, ScoreThreshold)]
  /\ numTensors' = numTensors + Cardinality(SelectionTensors)
  /\ det' = Forget(det, IdleDet)
  /\ FrameStep

\* Mutant of TopIdx: the last survivor is taken instead of the first.
TopIdx_Last(idxArr) == IF Len(idxArr) = 0 THEN 0 ELSE idxArr[Len(idxArr)]

\* line 244: idxArr[0], undefined (0) when there is no survivor.
TopIdx(idxArr) == IF Len(idxArr) = 0 THEN 0 ELSE idxArr[1]

\* lines 243-247 and 256-258: the indices arrived.  tf.gather with an
\* undefined index throws, and the finally disposes the input tensor and awaits
\* tf.nextFrame(); otherwise the top candidate's keypoints are gathered and
\* reshaped, and kpTensor.array() is awaited.
IdxArrDone ==
  /\ frame.pc = "idxArr"
  /\ LET topIdx == TopIdx(frame.selected)
     IN IF topIdx = 0
          THEN /\ frame' = [frame EXCEPT !.pc = "nextFrame", !.exit = "gather threw"]
               /\ numTensors' = numTensors - Cardinality({"tensor4d"})
          ELSE /\ frame' = [frame EXCEPT !.pc = "kpArr", !.topIdx = topIdx,
                              !.kpArr = Gather(Landmarks(frame.out), topIdx)]
               /\ numTensors' = numTensors + Cardinality(GatherTensors)
  /\ det' = Forget(det, IdleDet)
  /\ FrameStep

\* lines 247-258: the keypoints arrived; they are mapped and returned, and the
\* finally disposes the input tensor and awaits tf.nextFrame().
KpArrDone ==
  /\ frame.pc = "kpArr"
  /\ frame' = [frame EXCEPT !.pc = "nextFrame", !.exit = "return",
                 !.kpts = Kpts(frame.kpArr, frame.srcW, frame.srcH, frame.letter)]
  /\ numTensors' = numTensors - Cardinality({"tensor4d"})
  /\ det' = Forget(det, IdleDet)
  /\ FrameStep

\* line 258: tf.nextFrame() resolved; the call settles with the keypoints it
\* returned or with the error it threw.
NextFrameDone ==
  /\ frame.pc = "nextFrame"
  /\ IF frame.exit = "return"
       THEN Return(frame.d, PoseResult(frame.kpts, <<>>, det[frame.d].ts))
       ELSE DetectSettle(frame.d, "error")
  /\ frame' = [IdleFrame EXCEPT !.pc = "done", !.exit = frame.exit,
                 !.before = frame.before, !.n = frame.n]
  /\ UNCHANGED <<numTensors, app>>

InitializeAny ==
  /\ \E c \in Callers, m \in ModelArgs, b \in BackendArgs, s \in SolutionPathArgs :
        Initialize(c, m, b, s)
  /\ UNCHANGED app

DetectAny ==
  /\ \E d \in DetectIds, ts \in Timestamps : Detect(d, ts)
  /\ UNCHANGED <<frame, numTensors, app>>

DetectSettleAny ==
  /\ \E d \in DetectIds, out \in {"keypoints", "empty", "error"} : DetectSettle(d, out)
  /\ UNCHANGED <<frame, numTensors, app>>

Next ==
  \/ InitializeAny
  \/ SetBackendDone
  \/ TfReadyDone
  \/ BackendFail
  \/ CreateDone
  \/ CreateFail
  \/ Close
  \/ DetectAny
  \/ DetectSettleAny

Spec == Init /\ [][Next]_vars

\* initialize with the model option alone.  No step of the detector reads
\* backend or solutionPath back into its control flow, so the specifications
\* below that are not about these two options leave them at their defaults.
InitializeModel ==
  /\ \E c \in Callers, m \in ModelArgs : Initialize(c, m, NoArg, NoArg)
  /\ UNCHANGED app

\* The lifecycle alone: initialize, the load and close.  detect writes none of
\* the lifecycle's variables, so the lifecycle claims are settled without it.
LifecycleNext ==
  \/ InitializeModel
  \/ SetBackendDone
  \/ TfReadyDone
  \/ BackendFail
  \/ CreateDone
  \/ CreateFail
  \/ Close

LifecycleSpec == Init /\ [][LifecycleNext]_vars

\* The lifecycle with every combination of backend and solutionPath, for the
\* supported models.
InitializeOptions ==
  /\ \E c \in Callers, m \in Supported, b \in BackendArgs, s \in SolutionPathArgs :
        Initialize(c, m, b, s)
  /\ UNCHANGED app

OptionsNext ==
  \/ InitializeOptions
  \/ SetBackendDone
  \/ TfReadyDone
  \/ BackendFail
  \/ CreateDone
  \/ CreateFail
  \/ Close

OptionsSpec == Init /\ [][OptionsNext]_vars

\* detect against the lifecycle.  detect reads detector, yoloDetector and
\* modelType only, and one caller issuing its initialize calls one after the
\* other already produces every combination of these three fields that
\* concurrent callers produce.
InitializeSequential ==
  /\ \E m \in ModelArgs : Initialize(1, m, NoArg, NoArg)
  /\ UNCHANGED app

DetectNext ==
  \/ InitializeSequential
  \/ SetBackendDone
  \/ TfReadyDone
  \/ BackendFail
  \/ CreateDone
  \/ CreateFail
  \/ Close
  \/ DetectAny
  \/ DetectSettleAny

DetectSpec == Init /\ [][DetectNext]_vars

\* The generic-detector path frame by frame: yolo11 is loaded once, and detect
\* is called with one frame after the other (a call is issued once the
\* previous one has settled).
InitializeYolo ==
  /\ loadedModelType # "yolo11"
  /\ Initialize(1, "yolo11", NoArg, NoArg)
  /\ UNCHANGED app

DetectYolo11Any ==
  \E d \in DetectIds, ts \in Timestamps, sz \in SourceSizes, o \in FrameOutputs :
      DetectYolo11(d, ts, sz[1], sz[2], o)

ExecuteThrowsAny ==
  \E d \in DetectIds, ts \in Timestamps, sz \in SourceSizes :
      ExecuteThrows(d, ts, sz[1], sz[2])

YoloNext ==
  \/ InitializeYolo
  \/ SetBackendDone
  \/ TfReadyDone
  \/ CreateDone
  \/ DetectYolo11Any
  \/ ExecuteThrowsAny
  \/ SelectionDone
  \/ IdxArrDone
  \/ KpArrDone
  \/ NextFrameDone

YoloSpec == Init /\ [][YoloNext]_vars

\* The letterbox of detectYolo11 over source dimensions: tiny ones and the
\* usual image and video sizes.  The frames all carry one confident candidate.
SourceDims == (1..MaxDim) \cup {300, 400, 480, 639, 640, 641, 720, 1080, 1280, 1920}

DetectSized ==
  \E w \in SourceDims, h \in SourceDims :
      DetectYolo11(1, 0, w, h, << Row(0, 0, 100, 100, 90) >>)

LetterboxNext ==
  \/ InitializeYolo
  \/ SetBackendDone
  \/ TfReadyDone
  \/ CreateDone
  \/ DetectSized
  \/ SelectionDone
  \/ IdxArrDone
  \/ KpArrDone
  \/ NextFrameDone

LetterboxSpec == Init /\ [][LetterboxNext]_vars

\* The decode of one frame, for every model output: the state in which
\* yolo11 has been loaded and the first detect call, on a 400x300 frame, has
\* run the model and awaits the selection; then the rest of detectYolo11.
SelectInit ==
  /\ detector = NoHandle
  /\ yoloDetector = Handle("yolo11")
  /\ modelType = "yolo11"
  /\ loadedModelType = "yolo11"
  /\ backend = "webgl"
  /\ solutionPath = DefaultSolutionPath
  /\ initializingPromise = 0
  /\ load = IdleLoad
  /\ call = [c \in Callers |-> IdleCall]
  /\ det = [d \in DetectIds |->
              IF d = 1 THEN [st |-> "pending", via |-> Handle("yolo11"), ts |-> 0,
                             res |-> NoResult, err |-> "none"]
                       ELSE IdleDet]
  /\ lastEv = "settle"
  /\ lastDisposed = NoHandle
  /\ \E o \in ModelOutputs :
        frame = [IdleFrame EXCEPT !.pc = "selecting", !.d = 1, !.srcW = 400, !.srcH = 300,
                   !.letter = Letter(400, 300), !.out = o,
                   !.boxes = Boxes(o), !.scores = Scores(o),
                   !.before = 0, !.n = 1]
  /\ numTensors = Cardinality(InputTensors) + Cardinality(DecodeTensors)
  /\ app = IdleApp
  /\ other = FreshInstance

SelectNext ==
  \/ SelectionDone
  \/ IdxArrDone
  \/ KpArrDone
  \/ NextFrameDone

SelectSpec == SelectInit /\ [][SelectNext]_vars

\* lines 216-223: resizeBilinear to the resized dimensions and tf.pad by
\* (dx, dy) put the source point p at p * scale + (dx, dy) of the model input.
\* A model reports a keypoint it sees there in model-input pixels, or divided
\* by the input size as normalized coordinates.
Conventions == {"pixels", "normalized"}
Forward(p, letter, conv) ==
  LET xn == p[1] * letter.scale.num + letter.dx * letter.scale.den
      yn == p[2] * letter.scale.num + letter.dy * letter.scale.den
      d  == IF conv = "normalized" THEN letter.scale.den * INPUT_SIZE
                                   ELSE letter.scale.den
  IN  [x |-> Frac(xn, d), y |-> Frac(yn, d)]

\* Points of a w x h source: the corners, the centre and the pixels next to
\* the origin.
SourcePoints(w, h) ==
  { <<0, 0>>, <<1, 0>>, <<0, 1>>, <<1, 1>>, <<w \div 2, h \div 2>>, <<w, 0>>, <<w, h>> }

\* The keypoints a model can report for a w x h source.
ModelPoints(w, h) ==
  { Forward(p, Letter(w, h), conv) : p \in SourcePoints(w, h), conv \in Conventions }

\* Landscape, portrait and square sources, smaller and larger than the model
\* input.
RestoreSizes == { <<400, 300>>, <<300, 400>>, <<640, 640>>, <<1280, 1280>> }

\* Visibilities a model can report, in hundredths: logits are not confined to
\* 0..1.
Visibilities == {-20, 0, 90, 150}

\* The restoration of one frame, for every pair of leading keypoints: the state
\* in which yolo11 has been loaded and the first detect call has run the model
\* and awaits the selection.  The model output holds one confident candidate
\* carrying the keypoints, alone or after a fainter candidate that overlaps it.
RestoreInit ==
  /\ detector = NoHandle
  /\ yoloDetector = Handle("yolo11")
  /\ modelType = "yolo11"
  /\ loadedModelType = "yolo11"
  /\ backend = "webgl"
  /\ solutionPath = DefaultSolutionPath
  /\ initializingPromise = 0
  /\ load = IdleLoad
  /\ call = [c \in Callers |-> IdleCall]
  /\ \E ts \in Timestamps :
        det = [d \in DetectIds |->
                 IF d = 1 THEN [st |-> "pending", via |-> Handle("yolo11"), ts |-> ts,
                                res |-> NoResult, err |-> "none"]
                          ELSE IdleDet]
  /\ lastEv = "settle"
  /\ lastDisposed = NoHandle
  /\ \E sz \in RestoreSizes :
     \E a \in ModelPoints(sz[1], sz[2]), b \in ModelPoints(sz[1], sz[2]) :
     \E v \in Visibilities, alone \in BOOLEAN :
        LET winner == WithKeypoints(Row(0, 0, 100, 100, 90),
                                    << Triple(a.x, a.y, v), Triple(b.x, b.y, 50) >>)
            fainter == Row(10, 10, 100, 100, 50)
            o == IF alone THEN << winner >> ELSE << fainter, winner >>
        IN  frame = [IdleFrame EXCEPT !.pc = "selecting", !.d = 1,
                       !.srcW = sz[1], !.srcH = sz[2], !.letter = Letter(sz[1], sz[2]),
                       !.out = o, !.boxes = Boxes(o), !.scores = Scores(o),
                       !.before = 0, !.n = 1]
  /\ numTensors = Cardinality(InputTensors) + Cardinality(DecodeTensors)
  /\ app = IdleApp
  /\ other = FreshInstance

RestoreSpec == RestoreInit /\ [][SelectNext]_vars

\* new TfjsPoseDetector(config), lines 94-106: the field initializers, then
\* the options the config names.
Constructor(m, b, s) ==
  [modelType |-> IF m = NoArg THEN "blazepose-lite" ELSE m,
   backend |-> IF b = NoArg THEN "webgl" ELSE b,
   solutionPath |-> IF s = NoArg THEN DefaultSolutionPath ELSE s]

\* The lifecycle of a detector constructed with any config: a supported model
\* or none, either backend or none, a solutionPath or none.
ConfigInit ==
  /\ \E m \in Supported \cup {NoArg}, b \in BackendArgs, s \in SolutionPathArgs :
        /\ modelType = Constructor(m, b, s).modelType
        /\ backend = Constructor(m, b, s).backend
        /\ solutionPath = Constructor(m, b, s).solutionPath
  /\ detector = NoHandle
  /\ yoloDetector = NoHandle
  /\ loadedModelType = "null"
  /\ initializingPromise = 0
  /\ load = IdleLoad
  /\ call = [c \in Callers |-> IdleCall]
  /\ det = [d \in DetectIds |-> IdleDet]
  /\ lastEv = "none"
  /\ lastDisposed = NoHandle
  /\ frame = IdleFrame
  /\ numTensors = 0
  /\ app = IdleApp
  /\ other = FreshInstance

ConfigSpec == ConfigInit /\ [][LifecycleNext]_vars

----------------------------------------------------------------------------
\* The App component (App.tsx), the caller of the detector in this repository.
\* It owns one detector (line 49), loads the selected model from an effect
\* (lines 64-117), and calls detect from the render loop predictVideo (line
\* 227) and from the image branch of onFileChange (line 191).
\*
\* A render-loop chain is one invocation of predictVideo together with the
\* invocations it schedules for itself (line 240).  app.loop[c] is the position
\* of chain c: "scheduled" when its callback is due, "detecting" while it
\* awaits detect.  app.frameId is the chain whose requestAnimationFrame id is
\* held in animationFrameId.current and still due (0: none, or an id whose
\* callback has run).  app.media is what the video element holds, app.loading
\* whether its loadeddata event is still due; app.listener is the 'loadeddata'
\* listener of startWebcam (line 264), app.onloadeddata the handler of
\* onFileChange (line 153), which nothing removes.  app.file is the position
\* of onFileChange on an image; one image is followed at a time.
\*
\* webcamRunningRef follows the webcamRunning state (line 53) in the render
\* that React runs before the event that set the state returns, so the two are
\* one field here.  getUserMedia (line 262) is taken to resolve at once, and
\* the video element to hold nothing once its stream is removed.

\* The detect calls of the App: one per render-loop chain, and 0 for the
\* image branch of onFileChange.
AppDetects == 0..MaxChains

\* loadingModel (lines 66 and 115): set when the effect starts, cleared in the
\* turn in which the initialize call of line 110 resolves; a rejected call
\* leaves it set.  The effect is the only caller of initialize, so its call
\* has resolved exactly when no load is in flight and the selected model is
\* the one marked as loaded.
LoadingModel ==
  ~app.mounted \/ ~(initializingPromise = 0 /\ loadedModelType = modelType)

\* A step of the App that does not call the detector.
AppStep ==
  /\ call' = Forget(call, IdleCall)
  /\ det' = Forget(det, IdleDet)
  /\ UNCHANGED <<detector, yoloDetector, modelType, loadedModelType, backend,
                 solutionPath, initializingPromise, load, lastEv, lastDisposed,
                 frame, numTensors, other>>

\* The chains that are not running, and the lowest of a set of chains.
FreeChains(a) == { c \in Chains : a.loop[c] = "idle" }
First(S) == CHOOSE c \in S : \A d \in S : c <= d

\* cancelAnimationFrame(animationFrameId.current) (lines 80-83 and 271-274):
\* the callback whose id is held is dropped.  A chain scheduled under an id
\* that has been overwritten, or awaiting detect, is not reached.
CancelFrame(a) ==
  [a EXCEPT !.loop = [c \in Chains |-> IF c = a.frameId THEN "idle" ELSE @[c]],
            !.frameId = 0]

\* stopWebcam, lines 267-288: returns at once when the webcam is off;
\* otherwise clears webcamRunning, cancels the held animation frame, removes
\* the stream and the 'loadeddata' listener.
StopWebcamApp(a) ==
  IF ~a.webcamRunning THEN a
  ELSE [CancelFrame(a) EXCEPT !.webcamRunning = FALSE, !.media = "none",
                              !.loading = FALSE, !.listener = FALSE]

\* lines 72-79 and 133-139: an active video file is dropped from the element.
ResetVideo(a) ==
  IF ~a.videoFileActive THEN a
  ELSE [a EXCEPT !.videoFileActive = FALSE, !.media = "none", !.loading = FALSE]

\* lines 64-117: the effect of mounting (the default model) or of selecting
\* another model (the selector is disabled while loadingModel): it stops the
\* webcam and the video file, cancels the held animation frame, clears the
\* image and its onload handler, and calls initialize({model, backend: 'webgl'}).
ModelSwitch(m) ==
  /\ IF app.mounted THEN ~LoadingModel /\ m # modelType
                    ELSE m = "blazepose-lite"
  /\ Initialize(1, m, "webgl", NoArg)
  /\ app' = [CancelFrame(ResetVideo(StopWebcamApp(app))) EXCEPT
               !.mounted = TRUE,
               !.file = IF @ = "loading" THEN "idle" ELSE @]

\* lines 244-265 and 290-302: the webcam toggle while the webcam is off: the
\* stream is put into the video element and predictVideo is attached to its
\* loadeddata event.  An active video file stays marked active.
StartWebcam ==
  /\ ~LoadingModel
  /\ ~app.webcamRunning
  /\ app' = [app EXCEPT !.webcamRunning = TRUE, !.media = "stream",
                        !.loading = TRUE, !.listener = TRUE]
  /\ AppStep

\* lines 267-288 and 290-302: the webcam toggle while the webcam is on.
StopWebcam ==
  /\ ~LoadingModel
  /\ app.webcamRunning
  /\ app' = StopWebcamApp(app)
  /\ AppStep

\* onFileChange, lines 120-168, on a video file: the webcam is stopped, an
\* earlier video file is dropped, the new one is marked active and put into
\* the element, and its onloadeddata handler is set.
OnFileChangeVideo ==
  /\ ~LoadingModel
  /\ app' = [ResetVideo(StopWebcamApp(app)) EXCEPT
               !.videoFileActive = TRUE, !.media = "file", !.loading = TRUE,
               !.onloadeddata = TRUE]
  /\ AppStep

\* lines 163-166: the video file played to its end.
VideoEnded ==
  /\ app.videoFileActive
  /\ app.media = "file" /\ ~app.loading
  /\ app' = [app EXCEPT !.videoFileActive = FALSE]
  /\ AppStep

\* lines 156-161: the video file failed to load.
VideoError ==
  /\ app.videoFileActive
  /\ app.media = "file" /\ app.loading
  /\ app' = [app EXCEPT !.videoFileActive = FALSE, !.loading = FALSE]
  /\ AppStep

\* What line 227 and the lines after it leave of a chain that has just called
\* detect: it awaits the call; a call that resolved at once (no adapter
\* loaded) has scheduled the next frame (line 240, webcam or video file being
\* active); one that threw has ended the chain.
Called(a, c, st) ==
  IF st = "pending" THEN [a EXCEPT !.loop[c] = "detecting"]
  ELSE IF st = "resolved" THEN [a EXCEPT !.loop[c] = "scheduled", !.frameId = c]
  ELSE [a EXCEPT !.loop[c] = "idle"]

\* The loadeddata event of the video element.  The listener of line 264, when
\* attached (the webcam is then running), calls predictVideo, which starts a
\* chain with its detect call (lines 202-227); the handler of lines 153-155,
\* when set, schedules predictVideo, which starts another.
LoadedData(ts) ==
  /\ app.loading
  /\ LET free == FreeChains(app)
         need == (IF app.listener THEN 1 ELSE 0) + (IF app.onloadeddata THEN 1 ELSE 0)
     IN  /\ Cardinality(free) >= need
         /\ LET c1 == IF app.listener THEN First(free) ELSE 0
                c2 == IF app.onloadeddata THEN First(free \ {c1}) ELSE 0
                a0 == [app EXCEPT !.loading = FALSE]
                a1 == IF c1 # 0 THEN Called(a0, c1, det'[c1].st) ELSE a0
            IN  /\ IF c1 # 0
                     THEN Detect(c1, ts) /\ UNCHANGED <<frame, numTensors>>
                     ELSE AppStep
                /\ app' = IF c2 # 0
                            THEN [a1 EXCEPT !.loop[c2] = "scheduled", !.frameId = c2]
                            ELSE a1

\* Mutant of PredictVideo: the early return of lines 203-210 is missing.
PredictVideo_NoReturn(c, ts) ==
  /\ app.loop[c] = "scheduled"
  /\ Detect(c, ts)
  /\ app' = Called([app EXCEPT !.frameId = IF @ = c THEN 0 ELSE @], c, det'[c].st)
  /\ UNCHANGED <<frame, numTensors>>

\* predictVideo, lines 202-227: the scheduled callback of chain c runs; it
\* returns when neither the webcam nor a video file is active, and calls
\* detect on the video otherwise.
PredictVideo(c, ts) ==
  /\ app.loop[c] = "scheduled"
  /\ LET a0 == [app EXCEPT !.frameId = IF @ = c THEN 0 ELSE @]
     IN  IF app.webcamRunning \/ app.videoFileActive
           THEN /\ Detect(c, ts)
                /\ app' = Called(a0, c, det'[c].st)
                /\ UNCHANGED <<frame, numTensors>>
           ELSE /\ app' = [a0 EXCEPT !.loop[c] = "idle"]
                /\ AppStep

\* predictVideo, lines 227-241: the detect call of chain c settled; the result
\* is drawn and the next frame is scheduled while the webcam or a video file
\* is active.  A rejected call ends the chain.
PredictVideoSettled(c, out) ==
  /\ app.loop[c] = "detecting"
  /\ DetectSettle(c, out)
  /\ app' = IF out # "error" /\ (app.webcamRunning \/ app.videoFileActive)
              THEN [app EXCEPT !.loop[c] = "scheduled", !.frameId = c]
              ELSE [app EXCEPT !.loop[c] = "idle"]
  /\ UNCHANGED <<frame, numTensors>>

\* onFileChange, lines 120-180, on an image file: the webcam and the video
\* file are stopped and the image starts loading.
OnFileChangeImage ==
  /\ ~LoadingModel
  /\ app.file = "idle"
  /\ app' = [ResetVideo(StopWebcamApp(app)) EXCEPT !.file = "loading"]
  /\ AppStep

\* onFileChange, lines 177-191: the image loaded; detect is called on it.
ImageLoaded(ts) ==
  /\ app.file = "loading"
  /\ Detect(0, ts)
  /\ app' = [app EXCEPT !.file =
               IF det'[0].st = "pending" THEN "detecting" ELSE "idle"]
  /\ UNCHANGED <<frame, numTensors>>

\* onFileChange, line 178: the image failed to load.
ImageLoadFailed ==
  /\ app.file = "loading"
  /\ app' = [app EXCEPT !.file = "idle"]
  /\ AppStep

\* onFileChange, lines 191-200: the detect call on the image settled.
ImageDetected(out) ==
  /\ app.file = "detecting"
  /\ DetectSettle(0, out)
  /\ app' = [app EXCEPT !.file = "idle"]
  /\ UNCHANGED <<frame, numTensors>>

AppInit ==
  /\ detector = NoHandle
  /\ yoloDetector = NoHandle
  /\ modelType = "blazepose-lite"
  /\ loadedModelType = "null"
  /\ backend = "webgl"
  /\ solutionPath = DefaultSolutionPath
  /\ initializingPromise = 0
  /\ load = IdleLoad
  /\ call = [c \in Callers |-> IdleCall]
  /\ det = [d \in AppDetects |-> IdleDet]
  /\ lastEv = "none"
  /\ lastDisposed = NoHandle
  /\ frame = IdleFrame
  /\ numTensors = 0
  /\ app = IdleApp
  /\ other = FreshInstance

ModelSwitchAny == \E m \in Supported : ModelSwitch(m)
LoadedDataAny == \E ts \in Timestamps : LoadedData(ts)
PredictVideoChain(c) == \E ts \in Timestamps : PredictVideo(c, ts)
PredictVideoSettledChain(c) ==
  \E out \in {"keypoints", "empty", "error"} : PredictVideoSettled(c, out)
PredictVideoAny == \E c \in Chains : PredictVideoChain(c)
PredictVideoSettledAny == \E c \in Chains : PredictVideoSettledChain(c)
ImageLoadedAny == \E ts \in Timestamps : ImageLoaded(ts)
ImageDetectedAny == \E out \in {"keypoints", "empty", "error"} : ImageDetected(out)

AppNext ==
  \/ ModelSwitchAny
  \/ SetBackendDone
  \/ TfReadyDone
  \/ BackendFail
  \/ CreateDone
  \/ CreateFail
  \/ StartWebcam
  \/ StopWebcam
  \/ OnFileChangeVideo
  \/ VideoEnded
  \/ VideoError
  \/ LoadedDataAny
  \/ PredictVideoAny
  \/ PredictVideoSettledAny
  \/ OnFileChangeImage
  \/ ImageLoadedAny
  \/ ImageLoadFailed
  \/ ImageDetectedAny

AppSpec == AppInit /\ [][AppNext]_vars

\* What the browser and the runtime guarantee of the App's pending work: a
\* promise the load awaits settles (lines 124-145 of poseDetection.ts), the
\* scheduled animation frame of each chain runs (App.tsx line 240), the
\* detect call each chain awaits settles (line 227), as does the one on the
\* image (line 191), and an image that is loading loads or fails (lines
\* 172-180).  Nothing obliges the user to act, or a video to load or to end.
AppFairness ==
  /\ WF_vars(SetBackendDone \/ TfReadyDone \/ BackendFail \/ CreateDone \/ CreateFail)
  /\ \A c \in Chains : WF_vars(PredictVideoChain(c))
  /\ \A c \in Chains : WF_vars(PredictVideoSettledChain(c))
  /\ WF_vars(ImageLoadedAny \/ ImageLoadFailed)
  /\ WF_vars(ImageDetectedAny)

AppLiveSpec == AppSpec /\ AppFairness

\* The render loop on its own: the App once its effect has loaded the selected
\* model (lines 110-115), with the webcam toggle, the video files and the
\* callbacks of the loop.
LoopInit ==
  /\ \E m \in Supported :
       /\ modelType = m
       /\ loadedModelType = m
       /\ detector = IF m = "yolo11" THEN NoHandle ELSE Handle(m)
       /\ yoloDetector = IF m = "yolo11" THEN Handle(m) ELSE NoHandle
  /\ backend = "webgl"
  /\ solutionPath = DefaultSolutionPath
  /\ initializingPromise = 0
  /\ load = IdleLoad
  /\ call = [c \in Callers |-> IdleCall]
  /\ det = [d \in AppDetects |-> IdleDet]
  /\ lastEv = "none"
  /\ lastDisposed = NoHandle
  /\ frame = IdleFrame
  /\ numTensors = 0
  /\ app = [IdleApp EXCEPT !.mounted = TRUE]
  /\ other = FreshInstance

LoopNext ==
  \/ StartWebcam
  \/ StopWebcam
  \/ OnFileChangeVideo
  \/ VideoEnded
  \/ VideoError
  \/ LoadedDataAny
  \/ PredictVideoAny
  \/ PredictVideoSettledAny

LoopSpec == LoopInit /\ [][LoopNext]_vars

\* A scheduled animation frame of each chain runs (line 240) and the detect
\* call each chain awaits settles (line 227).
LoopFairness ==
  /\ \A c \in Chains : WF_vars(PredictVideoChain(c))
  /\ \A c \in Chains : WF_vars(PredictVideoSettledChain(c))

LoopLiveSpec == LoopSpec /\ LoopFairness

----------------------------------------------------------------------------
\* A second TfjsPoseDetector next to the first.  Its fields are the record
\* `other`: every field of the class is an instance field (lines 94-100), and
\* the methods read and write them through `this`.  The steps below are the
\* steps of initialize and close on that instance, with the model option.

\* A step of the second instance touches none of the first instance's state.
OtherStep ==
  /\ call' = Forget(call, IdleCall)
  /\ det' = Forget(det, IdleDet)
  /\ UNCHANGED <<detector, yoloDetector, modelType, loadedModelType, backend,
                 solutionPath, initializingPromise, load, lastEv, lastDisposed,
                 frame, numTensors, app>>

\* Mutant of OtherInFlight: the in-flight marker is one for all instances.
OtherInFlight_Shared == initializingPromise # 0

\* initialize, line 114, on the second instance: this.initializingPromise.
OtherInFlight == other.initializingPromise # 0

\* initialize({model: m}), lines 108-162, on the second instance, up to its
\* first suspension: join, skip, or start the load.
InitializeOther(m) ==
  /\ LET o == [other EXCEPT !.modelType = m]
     IN  other' = IF OtherInFlight THEN o
                  ELSE IF o.loadedModelType = o.modelType THEN o
                  ELSE [o EXCEPT !.initializingPromise = 1,
                                 !.load = IF UsingMediapipeRuntime(m)
                                            THEN [pc |-> "create", kind |-> m]
                                            ELSE [pc |-> "setBackend", kind |-> "none"]]
  /\ OtherStep

\* lines 124-151 on the second instance: tf.setBackend, then tf.ready
\* resolved; the switch reads the instance's modelType.
OtherBackendDone ==
  /\ other.load.pc \in {"setBackend", "tfReady"}
  /\ other' = [other EXCEPT !.load =
                 IF other.load.pc = "setBackend" THEN [pc |-> "tfReady", kind |-> "none"]
                 ELSE [pc |-> "create", kind |-> other.modelType]]
  /\ OtherStep

\* lines 131-160 on the second instance: the loader resolved.
OtherCreateDone ==
  /\ other.load.pc = "create"
  /\ other' = [other EXCEPT
                 !.yoloDetector = IF other.load.kind = "yolo11" THEN Handle(other.load.kind) ELSE @,
                 !.detector = IF other.load.kind = "yolo11" THEN NoHandle ELSE Handle(other.load.kind),
                 !.loadedModelType = other.modelType,
                 !.initializingPromise = 0,
                 !.load = IdleLoad]
  /\ OtherStep

\* lines 124-160 on the second instance: the load failed.
OtherLoadFail ==
  /\ other.load.pc # "idle"
  /\ other' = [other EXCEPT !.initializingPromise = 0, !.load = IdleLoad]
  /\ OtherStep

\* close(), lines 262-265, on the second instance.
OtherClose ==
  /\ other' = [other EXCEPT !.detector = Dropped(Dispose(@))]
  /\ OtherStep

InitializeOtherAny == \E m \in Supported : InitializeOther(m)

InitializeFirst ==
  /\ \E m \in Supported : Initialize(1, m, NoArg, NoArg)
  /\ UNCHANGED app

TwoNext ==
  \/ InitializeFirst
  \/ SetBackendDone
  \/ TfReadyDone
  \/ BackendFail
  \/ CreateDone
  \/ CreateFail
  \/ Close
  \/ InitializeOtherAny
  \/ OtherBackendDone
  \/ OtherCreateDone
  \/ OtherLoadFail
  \/ OtherClose

TwoSpec == Init /\ [][TwoNext]_vars

----------------------------------------------------------------------------
\* Vocabulary of the claims.

Pending(c) == call[c].st = "pending"
Settled(c) == call[c].st \in {"resolved", "rejected"}
Loading(c) == call[c].role \in {"owner", "waiter"}
JustClosed == lastEv \in {"close", "close again"}

\* Ready(M): M is marked as loaded, the handle of M's family is held and was
\* created for M, and a detect call would run that handle.
FamilyHandle(M) == IF M = "yolo11" THEN yoloDetector ELSE detector
Ready(M) ==
  /\ loadedModelType = M
  /\ FamilyHandle(M).kind = M
  /\ DetectPath.via = FamilyHandle(M)

\* Unloaded: no handle is held, and a detect call returns the empty result.
Unloaded ==
  /\ detector = NoHandle
  /\ yoloDetector = NoHandle
  /\ DetectPath.path = "notReady"

\* C1. initialize called while a load is in flight starts no second load and
\* settles with that load: the step leaves the load and its marker as they are
\* and only adds the caller as a waiter; there is never more than one owner;
\* the owner and its waiters settle together with one outcome; and when every
\* caller of one load asked for the same supported model A and the load
\* succeeded, it is A that is loaded.
C1_JoinStep ==
  (initializingPromise # 0 /\ InitializeAny) =>
     /\ load' = load
     /\ initializingPromise' = initializingPromise
     /\ \A c \in Callers : Pending(c) => call'[c] = call[c]
     /\ \A c \in Callers : call'[c] # call[c] => call'[c].role = "waiter" /\ call'[c].st = "pending"
C1_OneLoad ==
  /\ Cardinality({c \in Callers : call[c].role = "owner"}) <= 1
  /\ \A c \in Callers : call[c].role = "waiter" =>
        \E o \in Callers : call[o].role = "owner"
  /\ \A c, o \in Callers : (Loading(c) /\ Loading(o)) =>
        call[c].st = call[o].st /\ call[c].err = call[o].err
  /\ (initializingPromise # 0) <=> (\E o \in Callers : call[o].role = "owner" /\ Pending(o))
  /\ \A A \in Supported :
        ( /\ \E o \in Callers : call[o].role = "owner" /\ call[o].st = "resolved"
          /\ \A c \in Callers : Loading(c) => call[c].arg = A )
        => Ready(A)
C1_ConcurrentInitialize == []C1_OneLoad /\ [][C1_JoinStep]_vars

\* C1 witness: two initialize calls for the same model, one of which joined
\* the other's load, have both resolved.
C1_Witness ==
  \E o, c \in Callers :
     /\ call[o].role = "owner" /\ call[c].role = "waiter"
     /\ call[o].arg = "movenet-lightning" /\ call[c].arg = "movenet-lightning"
     /\ call[o].st = "resolved" /\ call[c].st = "resolved"

\* C2. Directly after a load started by initialize(A) succeeded (every caller
\* of that load having asked for A), a further initialize(A) starts no load and
\* leaves the handles and the loaded-model marker as they are, whatever backend
\* and solutionPath it carries.
SequentiallyLoaded(A) ==
  /\ lastEv = "settle"
  /\ \E o \in Callers : call[o].role = "owner" /\ call[o].st = "resolved"
  /\ \A c \in Callers : Loading(c) => call[c].arg = A
C2_Step ==
  \A A \in Supported :
    (SequentiallyLoaded(A) /\
       \E c \in Callers, b \in BackendArgs, s \in SolutionPathArgs : Initialize(c, A, b, s))
    => /\ UNCHANGED <<detector, yoloDetector, loadedModelType, initializingPromise, load>>
       /\ \A c \in Callers : call'[c].role # "owner"
       /\ \E c \in Callers : call'[c].st = "resolved" /\ call'[c].role = "skip"
C2_SecondInitializeIsNoOp == [][C2_Step]_vars

\* C2 witness: the second initialize(A), carrying another backend and
\* solutionPath, has returned with A still loaded.
C2_Witness ==
  /\ lastEv = "initialize"
  /\ \E c \in Callers : call[c].role = "skip" /\ call[c].arg = "yolo11"
  /\ Ready("yolo11")
  /\ backend = "wasm" /\ solutionPath = "custom"

\* C3 (as claimed). Whenever initialize({model: M}) with a supported M has
\* resolved, and no initialize or close came after it, the detector is
\* Ready(M).
C3_ResolvedMeansReady ==
  \A c \in Callers :
     (call[c].st = "resolved" /\ call[c].arg \in Supported) => Ready(call[c].arg)

\* C4. The in-flight marker is set exactly while a load is pending: it is
\* cleared in the step in which the load settles, by success or by failure,
\* and an initialize call made while it is clear, for a model other than the
\* one marked as loaded, starts a new load.
C4_MarkerIffPending ==
  /\ (initializingPromise # 0) <=> (load.pc # "idle")
  /\ (initializingPromise = 0) => \A c \in Callers : ~Pending(c)
C4_Step ==
  /\ (load.pc # "idle" /\ load'.pc = "idle") =>
        initializingPromise' = 0 /\ \A c \in Callers : Pending(c) => Settled(c)'
  /\ (initializingPromise = 0 /\ InitializeAny /\ modelType' # loadedModelType) =>
        /\ initializingPromise' # 0
        /\ load'.pc # "idle"
        /\ \E c \in Callers : call'[c].role = "owner" /\ Pending(c)'
C4_MarkerCleared == []C4_MarkerIffPending /\ [][C4_Step]_vars

\* C4 witness: a load has just failed and the marker is clear.
C4_Witness ==
  /\ lastEv = "settle"
  /\ initializingPromise = 0
  /\ \E c \in Callers : call[c].role = "owner" /\ call[c].st = "rejected"

\* C5. detect with no adapter loaded (in particular when none was ever loaded)
\* resolves with the empty result carrying the caller's timestamp and changes
\* no field of the detector and nothing of the load.
C5_Step ==
  \A d \in DetectIds, ts \in Timestamps :
    (NotReady /\ Detect(d, ts)) =>
       /\ det'[d].st = "resolved"
       /\ det'[d].res = [keypoints |-> <<>>, keypoints3D |-> <<>>, timestamp |-> ts]
       /\ UNCHANGED <<fields, load>>
C5_DetectBeforeInitialize == [][C5_Step]_vars

\* C5 witness: no load has ever succeeded and a detect call with timestamp 1
\* has returned.
C5_Witness ==
  /\ loadedModelType = "null"
  /\ \E d \in DetectIds : det[d].st = "resolved" /\ det[d].ts = 1 /\ det[d].via = NoHandle

\* C6 (as claimed). detect never rejects.
C6_DetectNeverThrows == \A d \in DetectIds : det[d].st # "rejected"

\* C7 (as claimed). After close() the detector is Unloaded.
C7_CloseUnloads == JustClosed => Unloaded

\* C8. close is idempotent: dispose() never runs on a handle it has run on
\* before, no field holds a disposed handle, and a close that directly follows
\* a close changes nothing of the detector.
C8_DisposedOnce ==
  /\ detector.disposed = 0
  /\ yoloDetector.disposed = 0
  /\ lastDisposed.disposed <= 1
C8_Step ==
  /\ Close => lastDisposed'.disposed <= 1
  /\ (JustClosed /\ Close) => UNCHANGED <<fields, load, lastDisposed>>
C8_CloseIdempotent == []C8_DisposedOnce /\ [][C8_Step]_vars

\* C8 witness: close has run at least twice in a row, and the first of them
\* disposed a handle.
C8_Witness == lastEv = "close again" /\ lastDisposed.disposed = 1

\* C9 (as claimed). An initialize({model: M}) that follows close() with no
\* load in flight starts a load.
C9_Step ==
  (JustClosed /\ initializingPromise = 0 /\
     \E c \in Callers, m \in Supported, b \in BackendArgs, s \in SolutionPathArgs :
        Initialize(c, m, b, s))
  => initializingPromise' # 0
C9_InitializeAfterCloseLoads == [][C9_Step]_vars

\* C10 (as claimed). An initialize call with an unrecognized model never
\* resolves: it fails with the unsupported-model error.
C10_UnsupportedFails ==
  \A c \in Callers :
     (Settled(c) /\ call[c].arg = Unsupported) =>
        call[c].st = "rejected" /\ call[c].err = "Unsupported model"

\* C11. A load that fails (the backend or the loader rejects) rejects its owner
\* and every caller awaiting it with the failure, clears the marker, and leaves
\* the handles and the loaded-model marker as they were: a detector that was
\* Unloaded stays Unloaded.  An initialize of the model the load was started
\* for, made directly after the failure, starts a new load.
C11_FailStep ==
  (CreateFail \/ BackendFail) =>
     /\ \A c \in Callers : Pending(c) =>
           call'[c].st = "rejected" /\ call'[c].err = "LoadFailure"
     /\ initializingPromise' = 0
     /\ UNCHANGED <<detector, yoloDetector, loadedModelType>>
     /\ Unloaded => Unloaded'
C11_RetryStep ==
  \A A \in Supported :
    ( /\ lastEv = "settle"
      /\ \E o \in Callers : /\ call[o].role = "owner" /\ call[o].arg = A
                            /\ call[o].st = "rejected" /\ call[o].err = "LoadFailure"
      /\ \E c \in Callers, b \in BackendArgs, s \in SolutionPathArgs : Initialize(c, A, b, s) )
    => /\ initializingPromise' # 0
       /\ load'.pc # "idle"
       /\ \E c \in Callers : call'[c].role = "owner" /\ call'[c].arg = A /\ Pending(c)'
C11_LoadFailure == [][C11_FailStep /\ C11_RetryStep]_vars

\* C11 witness: a load started for yolo11 has just failed with the detector
\* Unloaded, and its owner and a caller that awaited it are both rejected.
C11_Witness ==
  /\ lastEv = "settle"
  /\ Unloaded
  /\ \E o, c \in Callers :
        /\ call[o].role = "owner" /\ call[o].arg = "yolo11"
        /\ call[c].role = "waiter"
        /\ call[o].st = "rejected" /\ call[o].err = "LoadFailure"
        /\ call[c].st = "rejected" /\ call[c].err = "LoadFailure"

\* C12 (as claimed). When the selection of a detectYolo11 call has no
\* survivor, the call resolves with the empty result carrying the caller's
\* timestamp.
C12_Step ==
  ( /\ frame.pc = "nextFrame"
    /\ frame.exit # "execute threw"
    /\ frame.selected = <<>>
    /\ NextFrameDone )
  => /\ det'[frame.d].st = "resolved"
     /\ det'[frame.d].res =
          [keypoints |-> <<>>, keypoints3D |-> <<>>, timestamp |-> det[frame.d].ts]
C12_ZeroSurvivorsEmpty == [][C12_Step]_vars

\* C13 (as claimed). When a detectYolo11 call has settled, on whichever path,
\* as many tensors are live as when it was called.
C13_TensorsReleased == frame.pc = "done" => numTensors = frame.before

\* C14 (as claimed). The candidate whose keypoints a detectYolo11 call gathers
\* has a box of positive width and height.
C14_DegenerateExcluded ==
  (frame.pc \in {"kpArr", "nextFrame"} /\ frame.topIdx # 0) =>
     frame.out[frame.topIdx].w > 0 /\ frame.out[frame.topIdx].h > 0

\* C15. detectYolo11 consumes one candidate, the first survivor: its score is
\* above 0.3, no candidate above 0.3 scores higher, and among the candidates of
\* that score it has the lowest index; and a candidate is consumed whenever one
\* scores above 0.3.
C15_TopCandidate ==
  LET scores == [i \in DOMAIN frame.out |-> frame.out[i].obj]
      above == { i \in DOMAIN frame.out : scores[i] > 30 }
      top == frame.topIdx
  IN  /\ (frame.pc = "kpArr" \/ (frame.pc = "nextFrame" /\ frame.exit = "return")) =>
            /\ top \in above
            /\ \A j \in above : scores[j] <= scores[top]
            /\ \A j \in above : scores[j] = scores[top] => top <= j
      /\ (frame.pc = "nextFrame" /\ frame.exit = "gather threw") => above = {}

\* C15 witness: the two highest-scoring candidates tie, a lower-scoring one
\* precedes them, and the first of the two was consumed.
C15_Witness ==
  /\ frame.pc = "nextFrame" /\ frame.exit = "return"
  /\ Len(frame.out) = 3
  /\ frame.out[1].obj = 50 /\ frame.out[2].obj = 90 /\ frame.out[3].obj = 90
  /\ frame.topIdx = 2

\* IoU of candidates i and j of the frame's model output above t/100.
Overlap(i, j, t) ==
  LET b == Boxes(frame.out)
  IN  Intersection(b[i], b[j]) * 100 > t * Union(b[i], b[j])

\* C16. Of two candidates with different scores, both above 0.3: when they are
\* the whole output, the selection leaves only the higher-scoring one if their
\* IoU is above 0.45 and both, the higher-scoring first, if it is not; in any
\* output, two such candidates with IoU above 0.45 never both survive.  Boxes
\* [0,0,100,100] with score 0.9 and [10,10,100,100] with score 0.5 leave only
\* the first.
C16_PairwiseSelection ==
  frame.pc = "idxArr" =>
    LET out == frame.out
        sel == frame.selected
        survives(i) == \E k \in DOMAIN sel : sel[k] = i
    IN  /\ \A i, j \in DOMAIN out :
              (out[i].obj > 30 /\ out[j].obj > out[i].obj /\ Overlap(i, j, 45))
                 => ~(survives(i) /\ survives(j))
        /\ \A hi, lo \in DOMAIN out :
              (Len(out) = 2 /\ out[lo].obj > 30 /\ out[hi].obj > out[lo].obj)
                 => sel = IF Overlap(hi, lo, 45) THEN <<hi>> ELSE <<hi, lo>>
        /\ out = << Row(0, 0, 100, 100, 90), Row(10, 10, 100, 100, 50) >> => sel = <<1>>

\* C16 witness: the two boxes of the example, the lower-scoring one first,
\* have been through the selection.
C16_Witness ==
  /\ frame.pc = "idxArr"
  /\ frame.out = << Row(10, 10, 100, 100, 50), Row(0, 0, 100, 100, 90) >>
  /\ frame.selected = <<2>>

\* What the greedy procedure with cap `cap`, IoU threshold 0.45 and score
\* threshold 0.3 leaves of the frame's candidates.
GreedyResult(sel, cap) ==
  LET out == frame.out
      earlier(i, j) == out[i].obj > out[j].obj \/ (out[i].obj = out[j].obj /\ i < j)
      survivors == { sel[k] : k \in DOMAIN sel }
  IN  /\ survivors \subseteq DOMAIN out
      /\ Cardinality(survivors) = Len(sel)
      /\ Len(sel) <= cap
      /\ \A k, l \in DOMAIN sel : k < l => earlier(sel[k], sel[l])
      /\ \A i \in survivors : out[i].obj > 30
      /\ \A i, j \in survivors : i # j => ~Overlap(i, j, 45)
      /\ \A j \in DOMAIN out \ survivors :
            out[j].obj > 30 =>
               \/ \E i \in survivors : earlier(i, j) /\ Overlap(i, j, 45)
               \/ Len(sel) = cap /\ \A i \in survivors : earlier(i, j)

\* C17. The selection of detectYolo11 is the greedy one with cap 50, IoU
\* threshold 0.45 and score threshold 0.3: survivors come in non-increasing
\* score order (candidate order among equals), are at most 50, all score above
\* 0.3, no two of them overlap by more than 0.45, and every other candidate
\* above 0.3 overlaps an earlier survivor by more than 0.45 or was cut by the
\* cap.  The same holds of the selection run with a cap of 1 or 2.
C17_GreedySelection ==
  frame.pc = "idxArr" =>
    /\ GreedyResult(frame.selected, 50)
    /\ \A cap \in 1..2 :
          GreedyResult(NonMaxSuppression(Boxes(frame.out), Scores(frame.out), cap,
                                         IouThreshold, ScoreThreshold), cap)

\* C17 witness: of three candidates above 0.3 the second, overlapping the
\* best one, was discarded and the third, overlapping neither much, survived.
C17_Witness ==
  /\ frame.pc = "idxArr"
  /\ frame.out = << Row(0, 0, 100, 100, 90), Row(10, 10, 100, 100, 50),
                    Row(50, 0, 100, 100, 50) >>
  /\ frame.selected = <<1, 3>>

\* C18. The selection is idempotent: run again, with cap 50 and thresholds
\* 0.45 and 0.3, on the survivors of the frame's selection, it returns all of
\* them, in the same order.
C18_SelectionIdempotent ==
  frame.pc = "idxArr" =>
    LET sur == [k \in DOMAIN frame.selected |-> frame.out[frame.selected[k]]]
    IN  NonMaxSuppression(Boxes(sur), Scores(sur), 50, 45, 30)
          = [k \in DOMAIN frame.selected |-> k]

\* C18 witness: a selection that discarded a candidate and kept two.
C18_Witness ==
  /\ frame.pc = "idxArr"
  /\ Len(frame.out) = 3
  /\ Len(frame.selected) = 2
  /\ frame.out[frame.selected[1]].obj = frame.out[frame.selected[2]].obj

\* Target sizes other than the one detectYolo11 passes.
TargetSizes == {1, 2, 3, 5, 8, 320, 640, 1280}

\* The letterbox of a call in progress.
Letterboxed == frame.pc \in {"selecting", "idxArr", "kpArr", "nextFrame"}

AspectFit(l, S) ==
  /\ l.resized.width <= S
  /\ l.resized.height <= S
  /\ l.resized.width = S \/ l.resized.height = S

\* C19. For positive integer source dimensions the letterbox detectYolo11
\* computes, with target size 640, has both resized dimensions at most 640
\* and one of them equal to 640; so has the letterbox for the other target
\* sizes.
C19_AspectFit ==
  Letterboxed =>
    /\ AspectFit(frame.letter, 640)
    /\ \A S \in TargetSizes : AspectFit(ComputeLetterbox(frame.srcW, frame.srcH, S), S)

\* C19 witness: a 1920x1080 frame was letterboxed to 640x360.
C19_Witness ==
  /\ Letterboxed
  /\ frame.srcW = 1920 /\ frame.srcH = 1080
  /\ frame.letter.resized = [width |-> 640, height |-> 360]

\* C20. The letterbox of detectYolo11 is: scale the smaller of 640/srcW and
\* 640/srcH; the resized dimensions the source dimensions times scale, rounded
\* to the nearest integer (halves up); dx and dy half the remaining margin,
\* rounded down.  A 400x300 source gives scale 1.6, 640x480, dx 0, dy 80.
C20_Geometry ==
  Letterboxed =>
    LET l == frame.letter
        w == frame.srcW
        h == frame.srcH
        n == l.scale.num
        d == l.scale.den
    IN  /\ d > 0
        /\ n * w <= 640 * d /\ n * h <= 640 * d
        /\ n * w = 640 * d \/ n * h = 640 * d
        /\ (2 * l.resized.width - 1) * d <= 2 * w * n
        /\ 2 * w * n < (2 * l.resized.width + 1) * d
        /\ (2 * l.resized.height - 1) * d <= 2 * h * n
        /\ 2 * h * n < (2 * l.resized.height + 1) * d
        /\ 2 * l.dx <= 640 - l.resized.width /\ 640 - l.resized.width < 2 * l.dx + 2
        /\ 2 * l.dy <= 640 - l.resized.height /\ 640 - l.resized.height < 2 * l.dy + 2
        /\ (w = 400 /\ h = 300) =>
              /\ 10 * n = 16 * d
              /\ l.resized = [width |-> 640, height |-> 480]
              /\ l.dx = 0 /\ l.dy = 80

\* C20 witness: a 400x300 frame was letterboxed with 80 rows of padding above.
C20_Witness ==
  /\ Letterboxed
  /\ frame.srcW = 400 /\ frame.srcH = 300
  /\ frame.letter.dx = 0 /\ frame.letter.dy = 80

\* C21 (as claimed). Round trip: a keypoint of the winning candidate that is
\* the forward image of a source point p, in model-input pixels or normalized,
\* is restored to p.
C21_RoundTrip ==
  (frame.pc = "nextFrame" /\ frame.exit = "return") =>
     \A i \in DOMAIN frame.kpArr :
     \A p \in SourcePoints(frame.srcW, frame.srcH), conv \in Conventions :
        LET m == Forward(p, frame.letter, conv)
        IN  (frame.kpArr[i].x = m.x /\ frame.kpArr[i].y = m.y) =>
               /\ frame.kpts[i].x = Frac(p[1], 1)
               /\ frame.kpts[i].y = Frac(p[2], 1)

\* C22. Each keypoint of the winning candidate is restored on its own: it is
\* taken as normalized exactly when x <= 1 and y <= 1, a normalized one is
\* first scaled by the input size, and the result (xs, ys) satisfies
\* xs * scale = xModel - dx and ys * scale = yModel - dy.  On a 400x300 source
\* the model-space point (320, 320) is restored to (200, 150).
C22_Restoration ==
  (frame.pc = "nextFrame" /\ frame.exit = "return") =>
     \A i \in DOMAIN frame.kpArr :
        LET k == frame.kpArr[i]
            r == frame.kpts[i]
            l == frame.letter
            norm == k.x.n <= k.x.d /\ k.y.n <= k.y.d
            xm == IF norm THEN Frac(k.x.n * INPUT_SIZE, k.x.d) ELSE k.x
            ym == IF norm THEN Frac(k.y.n * INPUT_SIZE, k.y.d) ELSE k.y
        IN  /\ r.x.n * l.scale.num * xm.d = (xm.n - l.dx * xm.d) * l.scale.den * r.x.d
            /\ r.y.n * l.scale.num * ym.d = (ym.n - l.dy * ym.d) * l.scale.den * r.y.d
            /\ ( /\ frame.srcW = 400 /\ frame.srcH = 300
                 /\ k.x = Frac(320, 1) /\ k.y = Frac(320, 1) )
               => (r.x = Frac(200, 1) /\ r.y = Frac(150, 1))

\* C22 witness: on a 400x300 source the first keypoint is normalized, the
\* second is in pixels with x = 0 <= 1, the third is (320, 320); each has been
\* restored by its own convention.
C22_Witness ==
  /\ frame.pc = "nextFrame" /\ frame.exit = "return"
  /\ frame.srcW = 400 /\ frame.srcH = 300
  /\ frame.kpArr[1].x = Frac(1, 2) /\ frame.kpArr[1].y = Frac(1, 2)
  /\ frame.kpts[1].x = Frac(200, 1) /\ frame.kpts[1].y = Frac(150, 1)
  /\ frame.kpArr[2].x = Frac(0, 1) /\ frame.kpArr[2].y = Frac(80, 1)
  /\ frame.kpts[2].x = Frac(0, 1) /\ frame.kpts[2].y = Frac(0, 1)
  /\ frame.kpArr[3].x = Frac(320, 1) /\ frame.kpArr[3].y = Frac(320, 1)
  /\ frame.kpts[3].x = Frac(200, 1) /\ frame.kpts[3].y = Frac(150, 1)

\* C23. A detectYolo11 call whose selection has a survivor resolves with
\* exactly 17 keypoints, no 3-D keypoints and the caller's timestamp; keypoint
\* i is the restoration of channel triple i of the winning candidate, and its
\* visibility is the third value of that triple, unchanged.
C23_Step ==
  ( /\ frame.pc = "nextFrame"
    /\ frame.selected # <<>>
    /\ NextFrameDone )
  => LET d == frame.d
         res == det'[d].res
         triple == Landmarks(frame.out)[frame.selected[1]]
     IN  /\ det'[d].st = "resolved"
         /\ Len(res.keypoints) = 17
         /\ res.keypoints3D = <<>>
         /\ res.timestamp = det[d].ts
         /\ \A i \in 1..17 :
               LET mapped == MapFromLetterbox(triple[i].x, triple[i].y, frame.srcW,
                                              frame.srcH, frame.letter,
                                              Normalized(triple[i].x, triple[i].y))
               IN  /\ res.keypoints[i].x = mapped.x
                   /\ res.keypoints[i].y = mapped.y
                   /\ res.keypoints[i].visibility = triple[i].v
C23_SeventeenKeypoints == [][C23_Step]_vars

\* C23 witness: a call with timestamp 1 has resolved with 17 keypoints and no
\* 3-D ones; the first keypoint has visibility 1.5 and lies at the right edge
\* of the source, the second has visibility 0.5 and lies at the left edge.
C23_Witness ==
  /\ frame.pc = "done" /\ frame.exit = "return"
  /\ det[1].st = "resolved"
  /\ det[1].res.timestamp = 1
  /\ Len(det[1].res.keypoints) = 17
  /\ det[1].res.keypoints[1].visibility = 150
  /\ det[1].res.keypoints[1].x = Frac(400, 1)
  /\ det[1].res.keypoints[2].visibility = 50
  /\ det[1].res.keypoints[2].x = Frac(0, 1)
  /\ det[1].res.keypoints3D = <<>>

\* C24 (as claimed). Every adapter returns the keypoints of the runtime's first
\* pose in the runtime's order, none left out whatever its score, the score
\* copied to visibility: 33 for BlazePose, 17 for MoveNet and for the generic
\* detector; and a call whose runtime finds no pose resolves with the empty
\* result.
C24_Step ==
  /\ \A d \in DetectIds :
        ( /\ det[d].st = "pending"
          /\ det[d].via.kind \in {"blazepose-lite", "movenet-lightning"}
          /\ det'[d].st = "resolved" )
        => LET p == EstimatePoses(det[d].via)[1]
               res == det'[d].res
           IN  \/ res = [keypoints |-> <<>>, keypoints3D |-> <<>>, timestamp |-> det[d].ts]
               \/ /\ Len(res.keypoints) = Len(p.keypoints)
                  /\ Len(res.keypoints) = IF det[d].via.kind = "blazepose-lite" THEN 33 ELSE 17
                  /\ \A i \in DOMAIN p.keypoints :
                        /\ res.keypoints[i].name = p.keypoints[i].name
                        /\ res.keypoints[i].visibility = p.keypoints[i].score
                        /\ res.keypoints[i].x = p.keypoints[i].x
                        /\ res.keypoints[i].y = p.keypoints[i].y
  /\ ( /\ frame.pc = "nextFrame"
       /\ frame.exit # "execute threw"
       /\ NextFrameDone )
     => LET res == det'[frame.d].res
        IN  /\ det'[frame.d].st = "resolved"
            /\ IF frame.selected = <<>>
                 THEN res.keypoints = <<>>
                 ELSE /\ Len(res.keypoints) = 17
                      /\ \A i \in 1..17 :
                            res.keypoints[i].visibility =
                               Landmarks(frame.out)[frame.selected[1]][i].v
C24_NeverReorderedOrFiltered == [][C24_Step]_vars

\* C25 (as claimed). At most one detect call of the App is past the not-ready
\* guard and not yet settled.
C25_OneDecodeAtATime ==
  Cardinality({ d \in DOMAIN det : det[d].st = "pending" }) <= 1

\* C26. Two detector instances do not interfere: no step changes the
\* lifecycle state of both, and an initialize call on an instance that has no
\* load in flight and has not loaded the requested model starts a load of its
\* own, whatever the other instance has in flight or loaded.
C26_Step ==
  /\ other' # other => UNCHANGED <<fields, load>>
  /\ (fields' # fields \/ load' # load) => other' = other
  /\ \A m \in Supported :
        ( /\ InitializeOther(m)
          /\ other.initializingPromise = 0
          /\ other.loadedModelType # m )
        => /\ other'.initializingPromise = 1
           /\ other'.load.pc # "idle"
  /\ \A m \in Supported :
        ( /\ Initialize(1, m, NoArg, NoArg)
          /\ initializingPromise = 0
          /\ loadedModelType # m )
        => /\ initializingPromise' = 1
           /\ load'.pc # "idle"
C26_InstancesIndependent == [][C26_Step]_vars

\* C26 witness: while the first instance is loading movenet-lightning, the
\* second, which had loaded nothing, has started its own load of the same
\* model; and the first has not changed.
C26_Witness ==
  /\ initializingPromise = 1 /\ modelType = "movenet-lightning"
  /\ load.pc = "create" /\ loadedModelType = "null"
  /\ other.initializingPromise = 1 /\ other.modelType = "movenet-lightning"
  /\ other.load.pc = "setBackend" /\ other.loadedModelType = "null"

\* C27. A step in which a detect call is issued or settles, or in which
\* detectYolo11 advances, changes no field of the detector and nothing of its
\* load: the lifecycle state is changed by initialize and close only.
C27_Step ==
  (det' # Forget(det, IdleDet) \/ frame' # frame) => UNCHANGED <<fields, load>>
C27_DetectLeavesLifecycle == [][C27_Step]_vars

\* C27 witness: with blazepose-lite loaded and a load of movenet-lightning in
\* flight, a detect call has just rejected with an inference error; the
\* handle, the marker and the load are all still there.
C27_Witness ==
  /\ \E d \in DetectIds : det[d].st = "rejected" /\ det[d].err = "InferenceError"
  /\ detector = Handle("blazepose-lite")
  /\ loadedModelType = "blazepose-lite"
  /\ modelType = "movenet-lightning"
  /\ initializingPromise = 1
  /\ load.pc = "create"

\* C28 (as claimed). After an initialize call has failed while a model A is
\* marked as loaded and A's handle is held, the detector is Ready(A): detect
\* runs A's handle.
C28_FailedInitializeKeepsReady ==
  \A c \in Callers :
     ( /\ call[c].st = "rejected"
       /\ loadedModelType \in Supported
       /\ FamilyHandle(loadedModelType).kind = loadedModelType )
     => Ready(loadedModelType)

\* C29 (as claimed). With no load in flight, the loaded-model marker agrees
\* with the handles: when it names M, the handle of M's family is held and was
\* created for M; when it is null, no handle is held.
C29_MarkerConsistent ==
  initializingPromise = 0 =>
     /\ loadedModelType \in Supported => FamilyHandle(loadedModelType).kind = loadedModelType
     /\ loadedModelType = "null" => (detector = NoHandle /\ yoloDetector = NoHandle)

\* C30 (as claimed). At most one adapter handle is held at any time, and after
\* close none is.
C30_OneHandle ==
  /\ detector = NoHandle \/ yoloDetector = NoHandle
  /\ JustClosed => (detector = NoHandle /\ yoloDetector = NoHandle)

\* C31 (as claimed). When close() ran while a load was in flight and that load
\* then settles, the detector is Unloaded: the handle the load produced is not
\* left installed.
C31_Step ==
  (JustClosed /\ initializingPromise # 0 /\ load'.pc = "idle") => Unloaded'
C31_CloseDuringLoadUnloads == [][C31_Step]_vars

\* C32. detect called while a load is in flight is not blocked by it.  The
\* call changes no field and nothing of the load and leaves the initialize
\* calls pending; with no handle installed it resolves at once with the empty
\* result; otherwise it runs a handle that is installed at the moment of the
\* call, or rejects at once.  A pending detect call can settle whatever the
\* load does, and it settles with the result of the handle it was issued on,
\* also when the load has installed another handle since.
C32_NotBlocked ==
  \A d \in DetectIds : det[d].st = "pending" => ENABLED DetectSettleAny
C32_Step ==
  /\ \A d \in DetectIds, ts \in Timestamps :
        (initializingPromise # 0 /\ Detect(d, ts)) =>
           /\ UNCHANGED <<fields, load>>
           /\ \A c \in Callers : Pending(c) => Pending(c)'
           /\ NotReady => /\ det'[d].st = "resolved"
                          /\ det'[d].res = [keypoints |-> <<>>, keypoints3D |-> <<>>,
                                            timestamp |-> ts]
           /\ det'[d].st # "pending" => det'[d].via = NoHandle
           /\ det'[d].st = "pending" =>
                 /\ det'[d].via # NoHandle
                 /\ det'[d].via \in {detector, yoloDetector}
  /\ \A d \in DetectIds :
        (det[d].st = "pending" /\ det'[d].st = "resolved") =>
           /\ det'[d].via = det[d].via
           /\ det'[d].res \in { EmptyResult(det[d].ts), Estimated(det[d].via, det[d].ts) }
C32_DetectNotBlocked == []C32_NotBlocked /\ [][C32_Step]_vars

\* C32 witness: with no handle installed and the first load awaiting the
\* loader, a detect call with timestamp 1 has just resolved with the empty
\* result; the load is still in flight.
C32_Witness ==
  /\ initializingPromise = 1
  /\ load.pc = "create"
  /\ \E c \in Callers : Pending(c)
  /\ det[1].st = "resolved" /\ det[1].via = NoHandle
  /\ det[1].res = [keypoints |-> <<>>, keypoints3D |-> <<>>, timestamp |-> 1]

\* C33. initialize without a model option targets the model configured so
\* far.  this.modelType is the constructor's model (blazepose-lite when the
\* config names none) until an initialize call names a model, and from then on
\* the model of the most recent call that named one: only such a call changes
\* it, and it sets it to the model it names.  A call without a model option
\* leaves it as it is; with no load in flight it skips when that model is the
\* one marked as loaded and otherwise starts a load for it; and when that load
\* succeeds with no call naming a model having joined it, the detector is
\* Ready for that model.
C33_Step ==
  /\ modelType' # modelType =>
        \E c \in Callers, m \in ModelArgs \ {NoArg} :
           Initialize(c, m, NoArg, NoArg) /\ modelType' = m
  /\ \A c \in Callers, m \in ModelArgs \ {NoArg} :
        Initialize(c, m, NoArg, NoArg) => modelType' = m
  /\ \A c \in Callers :
        Initialize(c, NoArg, NoArg, NoArg) =>
           /\ modelType' = modelType
           /\ (initializingPromise = 0 /\ loadedModelType = modelType) =>
                 /\ call'[c].role = "skip"
                 /\ UNCHANGED <<initializingPromise, load>>
           /\ (initializingPromise = 0 /\ loadedModelType # modelType) =>
                 /\ call'[c].role = "owner"
                 /\ initializingPromise' = 1
                 /\ load' = IF modelType = "blazepose-lite"
                              THEN [pc |-> "create", kind |-> modelType]
                              ELSE [pc |-> "setBackend", kind |-> "none"]
  /\ ( /\ \A c \in Callers : Pending(c) => call[c].arg = NoArg
       /\ TfReadyDone /\ modelType \in Supported )
     => load'.kind = modelType
  /\ ( /\ \A c \in Callers : Pending(c) => call[c].arg = NoArg
       /\ CreateDone )
     => Ready(modelType)' /\ modelType' = modelType
C33_Invariant ==
  (lastEv = "none") =>
     \E m \in Supported \cup {NoArg} :
        modelType = IF m = NoArg THEN "blazepose-lite" ELSE m
C33_NoModelOption == []C33_Invariant /\ [][C33_Step]_vars

\* C33 witness: a detector constructed for the wasm backend has loaded yolo11
\* through an initialize call without a model option, joined by a second call
\* without one.
C33_Witness ==
  /\ lastEv = "settle"
  /\ backend = "wasm"
  /\ Ready("yolo11")
  /\ \E o, c \in Callers :
        /\ call[o].role = "owner" /\ call[o].arg = NoArg /\ call[o].st = "resolved"
        /\ call[c].role = "waiter" /\ call[c].arg = NoArg /\ call[c].st = "resolved"

\* C34. The decode of detectYolo11: for each candidate row, x1 = cx - w/2,
\* y1 = cy - h/2, x2 = x1 + w, y2 = y1 + h; the box handed to the selection
\* is [y1, x1, y2, x2] and the score is the objectness channel; and the
\* selection is run on exactly these boxes and scores.
C34_Decoded ==
  frame.pc \in {"selecting", "idxArr", "kpArr", "nextFrame"} =>
     /\ Len(frame.boxes) = Len(frame.out)
     /\ Len(frame.scores) = Len(frame.out)
     /\ \A i \in DOMAIN frame.out :
           LET r == frame.out[i]
               b == frame.boxes[i]
               y1 == b[1]
               x1 == b[2]
               y2 == b[3]
               x2 == b[4]
           IN  /\ Len(b) = 4
               /\ 2 * x1 = 2 * r.cx - r.w
               /\ 2 * y1 = 2 * r.cy - r.h
               /\ x2 = x1 + r.w
               /\ y2 = y1 + r.h
               /\ frame.scores[i] = r.obj
C34_Step ==
  SelectionDone =>
     frame'.selected =
        NonMaxSuppression(frame.boxes, frame.scores, MaxOutputSize, IouThreshold,
                          ScoreThreshold)
C34_BoxDecode == []C34_Decoded /\ [][C34_Step]_vars

\* C34 witness: a candidate centred at (50, 0), 100 wide and high, scoring
\* 0.9, was handed to the selection as [-50, 0, 50, 100], after a candidate of
\* negative width handed over as [-50, 50, 50, -50]; the first of them that
\* scores above the threshold was selected.
C34_Witness ==
  /\ frame.pc = "idxArr"
  /\ Len(frame.out) = 2
  /\ frame.out[1] = Row(0, 0, -100, 100, 20)
  /\ frame.boxes[1] = <<-50, 50, 50, -50>>
  /\ frame.out[2] = Row(50, 0, 100, 100, 90)
  /\ frame.boxes[2] = <<-50, 0, 50, 100>>
  /\ frame.scores = <<20, 90>>
  /\ frame.selected = <<2>>

\* C35 (as claimed). For positive integer source dimensions the four paddings
\* that build the model input are non-negative, both resized dimensions are at
\* least 1, and the padded image is 640 x 640 with the resized content at
\* offset (dx, dy).
C35_Padding ==
  Letterboxed =>
    LET l == frame.letter
        p == Paddings(l)
    IN  /\ p.rows[1] >= 0 /\ p.rows[2] >= 0
        /\ p.cols[1] >= 0 /\ p.cols[2] >= 0
        /\ p.rows[1] = l.dy /\ p.cols[1] = l.dx
        /\ PaddedShape(l) = <<640, 640>>
        /\ l.resized.width >= 1
        /\ l.resized.height >= 1

\* C36. detect carries nothing from one frame to the next.  The letterbox of
\* a detectYolo11 call is the one computed from that call's source dimensions,
\* and the call settles as a function of its own model output, source
\* dimensions and timestamp: it rejects when the model threw or the selection
\* on its output has no survivor, and otherwise resolves with the restored
\* keypoints of the first survivor, no 3-D keypoints and its timestamp,
\* whatever frames were processed before it.
C36_Letter ==
  Letterboxed => frame.letter = ComputeLetterbox(frame.srcW, frame.srcH, 640)
C36_Step ==
  (frame.pc = "nextFrame" /\ NextFrameDone) =>
     LET d == frame.d
         o == frame.out
         sel == NonMaxSuppression(Boxes(o), Scores(o), 50, 45, 30)
     IN  IF o = <<>> \/ sel = <<>>
           THEN det'[d].st = "rejected"
           ELSE /\ det'[d].st = "resolved"
                /\ det'[d].res =
                     [keypoints |-> Kpts(Landmarks(o)[sel[1]], frame.srcW, frame.srcH,
                                         ComputeLetterbox(frame.srcW, frame.srcH, 640)),
                      keypoints3D |-> <<>>,
                      timestamp |-> det[d].ts]
C36_NoStateAcrossFrames == []C36_Letter /\ [][C36_Step]_vars

\* C36 witness: the second frame of a behaviour, a 300x400 one, is letterboxed
\* with 80 columns of padding and its keypoints have been restored.
C36_Witness ==
  /\ frame.n = 2
  /\ frame.pc = "nextFrame" /\ frame.exit = "return"
  /\ frame.srcW = 300 /\ frame.srcH = 400
  /\ frame.letter.dx = 80 /\ frame.letter.dy = 0
  /\ Len(frame.kpts) = 17

\* C37 (as claimed). Whenever the App's initialisation effect has set
\* loadingModel, it is eventually cleared again.
C37_LoadingModelCleared == (app.mounted /\ LoadingModel) ~> ~LoadingModel

\* C38 (as claimed). While the initialize call of the App's initialisation
\* effect is pending, no detect call of the App is in progress.
C38_SwitchSerialized ==
  (app.mounted /\ call[1].st = "pending") =>
     \A d \in DOMAIN det : det[d].st # "pending"

\* The render-loop chains of the App that are running: scheduled or awaiting
\* detect.
ActiveChains == { c \in Chains : app.loop[c] # "idle" }

\* C39: in the App at most one render-loop chain is active at any time, under
\* every order of starting the webcam, selecting a video file, selecting an
\* image file, stopping the webcam and changing the model.
C39_OneChain == Cardinality(ActiveChains) <= 1

\* The webcam is stopped and no video file is active.
Stopped == ~app.webcamRunning /\ ~app.videoFileActive

\* C40: once stopWebcam has run, and while no video file is active and the
\* webcam is not started again, the render loop terminates: every chain ends,
\* so that no animation frame stays scheduled and no detect call stays
\* awaited, and no chain issues another detect call, also when a predictVideo
\* invocation was awaiting detect at the moment of the stop.
C40_Step ==
  Stopped => \A c \in Chains : det'[c].st = "pending" => det[c].st = "pending"
C40_Ends == Stopped ~> (ActiveChains = {} \/ ~Stopped)
C40_LoopTerminates == C40_Ends /\ [][C40_Step]_vars

\* A chain that awaited detect while the webcam was stopped has just ended:
\* its call settled and nothing is scheduled or awaited any more.
C40_Witness ==
  /\ app.mounted /\ Stopped /\ ~app.onloadeddata
  /\ ActiveChains = {}
  /\ \E c \in Chains : det[c].st \in {"resolved", "rejected"} /\ det[c].via # NoHandle

====
